---- MODULE Spec2Model ----
(***************************************************************************)
(* Model of the file provider (src/file-provider.service.ts): the storage  *)
(* gateway FileProvider over its two backends (local disk, object store),  *)
(* its batch fetch, its data-URI decoding and content-type helpers, the   *)
(* image quality reducer, the purge of the temp directory, and the copy    *)
(* of the gateway that keeps the files table (FilesServiceProvider).       *)
(*                                                                         *)
(* Strings of the program are sequences of one-character strings, so that  *)
(* parsing, matching and encoding are computed character by character.     *)
(* Byte buffers are sequences of integers in 0..255.                       *)
(*                                                                         *)
(* An await is two steps: what the awaited call does to the storage or    *)
(* the table, and the resumption of the method that awaited it. Calls      *)
(* issued meanwhile run in between. fs.writeFile, which nothing awaits,    *)
(* opens its file, writes it and calls back in steps of its own.           *)
(***************************************************************************)
EXTENDS Integers, Sequences, FiniteSets, Bags, TLC

VARIABLES
    storageType,  \* config.STORAGE_TYPE, fixed at start-up
    dir,          \* dir[id]: the directory <DISK_STORAGE_PATH>/<id> exists
    files,        \* files[id]: the set of [name, bytes] entries of that directory
    bucket,       \* the object store: a set of [key, body, contentType] objects
    pending,      \* bag of calls suspended at an await, and of writes not yet finished
    ret,          \* what the last call that returned gave its caller
    lastMut,      \* lastMut[id]: the last store/update/remove on id that returned
    crashed,      \* an exception escaped a write callback (uncaught)
    batch,        \* getMultipleFiles: the records of the call (fileData)
    bpc,          \* getMultipleFiles: position ("idle", "loop", "await", "done", "failed")
    bidx,         \* getMultipleFiles: number of records already fetched
    urls,         \* getMultipleFiles: the urls array built so far
    passed,       \* getMultipleFiles: the expiresIn values handed to getFile
    dropped,      \* getMultipleFiles: ids whose fetch gave no url
    exIn,         \* extractBase64img: the input string
    exOut,        \* extractBase64img: the result, once computed
    ctIn,         \* getContentType: the extension passed
    ctOut,        \* getContentType: the result, once computed, and the class asked
    reducer,      \* checkImageSizeAndDecreaseImageQuality: its arguments, locals and position
    records,      \* records[id]: the row of the files table FilesServiceProvider keeps for id
    temp          \* removeTempFiles: the temp directory, the clock and the position of a run

gwVars == <<storageType, dir, files, bucket, pending, ret, lastMut, crashed>>
batchVars == <<batch, bpc, bidx, urls, passed, dropped>>
exVars == <<exIn, exOut>>
auxVars == <<ctIn, ctOut, reducer, records, temp>>
vars == <<gwVars, batchVars, exVars, auxVars>>

----------------------------------------------------------------------------
(* Bounds of the model. *)

\* Calls and writes that may be in flight (awaiting a remote call or a mkdir,
\* or writing) when a further call is accepted.
MaxPending == 2

----------------------------------------------------------------------------
(* Characters and strings. *)

Upper == <<"A","B","C","D","E","F","G","H","I","J","K","L","M",
           "N","O","P","Q","R","S","T","U","V","W","X","Y","Z">>
Lower == <<"a","b","c","d","e","f","g","h","i","j","k","l","m",
           "n","o","p","q","r","s","t","u","v","w","x","y","z">>
Digits == <<"0","1","2","3","4","5","6","7","8","9">>

Range(s) == {s[i] : i \in 1..Len(s)}

IndexOf(s, c) == CHOOSE i \in 1..Len(s) : s[i] = c

\* String.prototype.toLowerCase on one character, then on a string.
LowerChar(c) == IF c \in Range(Upper) THEN Lower[IndexOf(Upper, c)] ELSE c
ToLowerCase(s) == [i \in 1..Len(s) |-> LowerChar(s[i])]

\* The base64 alphabet, in the order of the sextet values 0..63.
B64Alphabet == Upper \o Lower \o Digits \o <<"+", "/">>

\* The characters Node's base64 decoder reads: the base64 alphabet and the two
\* characters of base64url, "-" for "+" and "_" for "/".
B64Readable == Range(B64Alphabet) \cup {"-", "_"}

\* The sextet value of a character the decoder reads.
Sextet(c) ==
    IF c = "-" THEN 62
    ELSE IF c = "_" THEN 63
    ELSE IndexOf(B64Alphabet, c) - 1

\* The printable ASCII characters, in the order of their codes 32..126; the
\* grave accent (96), which a string of this language cannot hold, is left out
\* and its place kept.
Ascii ==
    <<" ", "!", "\"", "#", "$", "%", "&", "'", "(", ")", "*", "+",
      ",", "-", ".", "/", "0", "1", "2", "3", "4", "5", "6", "7",
      "8", "9", ":", ";", "<", "=", ">", "?", "@", "A", "B", "C",
      "D", "E", "F", "G", "H", "I", "J", "K", "L", "M", "N", "O",
      "P", "Q", "R", "S", "T", "U", "V", "W", "X", "Y", "Z", "[",
      "\\", "]", "^", "_", "", "a", "b", "c", "d", "e", "f", "g",
      "h", "i", "j", "k", "l", "m", "n", "o", "p", "q", "r", "s",
      "t", "u", "v", "w", "x", "y", "z", "{", "|", "}", "~">>

\* The character code of a printable ASCII character.
CharCode(c) == 31 + IndexOf(Ascii, c)

\* Buffer.toString("base64"): three bytes give four characters, the last group
\* is padded with "=".
RECURSIVE Base64Encode(_)
Base64Encode(bytes) ==
    IF Len(bytes) = 0 THEN <<>>
    ELSE IF Len(bytes) = 1 THEN
        << B64Alphabet[(bytes[1] \div 4) + 1],
           B64Alphabet[((bytes[1] % 4) * 16) + 1], "=", "=" >>
    ELSE IF Len(bytes) = 2 THEN
        << B64Alphabet[(bytes[1] \div 4) + 1],
           B64Alphabet[((bytes[1] % 4) * 16 + (bytes[2] \div 16)) + 1],
           B64Alphabet[((bytes[2] % 16) * 4) + 1], "=" >>
    ELSE
        << B64Alphabet[(bytes[1] \div 4) + 1],
           B64Alphabet[((bytes[1] % 4) * 16 + (bytes[2] \div 16)) + 1],
           B64Alphabet[((bytes[2] % 16) * 4 + (bytes[3] \div 64)) + 1],
           B64Alphabet[(bytes[3] % 64) + 1] >>
        \o Base64Encode(SubSeq(bytes, 4, Len(bytes)))

\* The sextets Buffer.from(s, "base64") reads: decoding stops at the first "=",
\* characters the decoder does not read are skipped.
RECURSIVE B64Sextets(_)
B64Sextets(s) ==
    IF Len(s) = 0 \/ s[1] = "=" THEN <<>>
    ELSE IF s[1] \in B64Readable
         THEN <<Sextet(s[1])>> \o B64Sextets(Tail(s))
         ELSE B64Sextets(Tail(s))

\* Sextets to bytes: four sextets give three bytes; a tail of two gives one byte,
\* of three gives two bytes, of one gives none.
RECURSIVE SextetsToBytes(_)
SextetsToBytes(x) ==
    IF Len(x) < 2 THEN <<>>
    ELSE IF Len(x) = 2 THEN << x[1] * 4 + (x[2] \div 16) >>
    ELSE IF Len(x) = 3 THEN
        << x[1] * 4 + (x[2] \div 16), (x[2] % 16) * 16 + (x[3] \div 4) >>
    ELSE
        << x[1] * 4 + (x[2] \div 16),
           (x[2] % 16) * 16 + (x[3] \div 4),
           (x[3] % 4) * 64 + x[4] >>
        \o SextetsToBytes(SubSeq(x, 5, Len(x)))

Base64Decode(s) == SextetsToBytes(B64Sextets(s))

\* Buffer.from(s, "hex"): one byte per pair of hexadecimal digits, up to the
\* first pair that is none; a last single character is dropped.
HexDigits == <<"0","1","2","3","4","5","6","7","8","9","a","b","c","d","e","f">>
IsHexDigit(c) == LowerChar(c) \in Range(HexDigits)
HexValue(c) == IndexOf(HexDigits, LowerChar(c)) - 1

RECURSIVE HexDecode(_)
HexDecode(s) ==
    IF Len(s) < 2 \/ ~IsHexDigit(s[1]) \/ ~IsHexDigit(s[2]) THEN <<>>
    ELSE <<16 * HexValue(s[1]) + HexValue(s[2])>> \o HexDecode(SubSeq(s, 3, Len(s)))

\* Buffer.from(s, "utf16le"): the code of each character, low byte first.
RECURSIVE Utf16leEncode(_)
Utf16leEncode(s) ==
    IF Len(s) = 0 THEN <<>>
    ELSE <<CharCode(s[1]) % 256, CharCode(s[1]) \div 256>> \o Utf16leEncode(Tail(s))

\* The names of the encodings, as Node lists them (lib/buffer.js,
\* getEncodingOps). A name is read whatever its case.
UTF8 == <<"u","t","f","8">>
UTF_8 == <<"u","t","f","-","8">>
UCS2 == <<"u","c","s","2">>
UCS_2 == <<"u","c","s","-","2">>
UTF16LE == <<"u","t","f","1","6","l","e">>
UTF_16LE == <<"u","t","f","-","1","6","l","e">>
LATIN1 == <<"l","a","t","i","n","1">>
BINARY == <<"b","i","n","a","r","y">>
ASCII == <<"a","s","c","i","i">>
BASE64 == <<"b","a","s","e","6","4">>
BASE64URL == BASE64 \o <<"u","r","l">>
HEX == <<"h","e","x">>

Base64Names == {BASE64, BASE64URL}
HexNames == {HEX}
Utf16leNames == {UTF16LE, UTF_16LE, UCS2, UCS_2}
OneByteNames == {UTF8, UTF_8, LATIN1, BINARY, ASCII}

\* Buffer.isEncoding(encoding)
IsEncoding(encoding) ==
    ToLowerCase(encoding) \in
        Base64Names \cup HexNames \cup Utf16leNames \cup OneByteNames

\* fs.writeFile(path, data, encoding, callback) throws, before it opens
\* anything, when the encoding is a non-empty string that names no encoding;
\* the empty string stands for utf8.
WriteFileThrows(encoding) == encoding # <<>> /\ ~IsEncoding(encoding)

EncodingMessage(encoding) ==
    IF encoding = <<"b","u","f","f","e","r">> THEN "Unknown encoding: buffer"
    ELSE "The argument 'encoding' is invalid"

\* The error thrown on a name that is no encoding: the check of the options
\* gives ERR_INVALID_ARG_VALUE; it lets the name 'buffer', as written, through
\* to Buffer.from, which gives ERR_UNKNOWN_ENCODING.
BUFFER == <<"b","u","f","f","e","r">>
ERR_INVALID_ARG_VALUE == "ERR_INVALID_ARG_VALUE"
ERR_UNKNOWN_ENCODING == "ERR_UNKNOWN_ENCODING"
WriteFileError(encoding) ==
    IF encoding = BUFFER THEN ERR_UNKNOWN_ENCODING ELSE ERR_INVALID_ARG_VALUE

\* The bytes fs.writeFile(path, data, encoding) writes for a string `data`:
\* base64 and base64url share one decoder; utf8, latin1, ascii and binary give
\* one byte for each ASCII character.
EncodeString(data, encoding) ==
    LET enc == ToLowerCase(encoding) IN
    IF WriteFileThrows(encoding) THEN WriteFileError(encoding)
    ELSE IF enc \in Base64Names THEN Base64Decode(data)
    ELSE IF enc \in HexNames THEN HexDecode(data)
    ELSE IF enc \in Utf16leNames THEN Utf16leEncode(data)
    ELSE [i \in 1..Len(data) |-> CharCode(data[i])]

\* String.prototype.slice(from, to), both counted from 0.
Slice(s, from, to) == SubSeq(s, from + 1, to)

\* The greatest member of a set of integers, -1 for the empty set.
Greatest(S) == IF S = {} THEN -1 ELSE CHOOSE i \in S : \A j \in S : j <= i

\* path.parse(p) of the posix path module. Positions are counted from 0, as
\* the code counts them. The scan runs from the end of the path down to
\* `start` (1 for a path that begins with "/", the root): `end` follows the
\* last character that is no "/", startPart follows the "/" found before it
\* and stays 0 when the scan finds none, startDot is the last "." of the part,
\* preDotState tells what the part begins with when that is not startDot.
PathParse(s) ==
    LET isAbsolute == Len(s) > 0 /\ s[1] = "/"
        start == IF isAbsolute THEN 1 ELSE 0
        last == Greatest({i \in start..(Len(s) - 1) : s[i + 1] # "/"})
        end == IF last = -1 THEN -1 ELSE last + 1
        slash == Greatest({i \in start..(end - 1) : s[i + 1] = "/"})
        startPart == IF slash = -1 THEN 0 ELSE slash + 1
        from == IF startPart = 0 /\ isAbsolute THEN 1 ELSE startPart
        startDot == Greatest({i \in from..(end - 1) : s[i + 1] = "."})
        preDotState == IF startDot = -1 \/ startDot = from THEN 0
                       ELSE IF s[from + 1] = "." THEN 1 ELSE -1
    IN  IF end = -1 THEN [base |-> <<>>, ext |-> <<>>]
        ELSE IF \/ startDot = -1
                \/ preDotState = 0
                \/ (preDotState = 1 /\ startDot = end - 1 /\ startDot = startPart + 1)
             THEN [base |-> Slice(s, from, end), ext |-> <<>>]
             ELSE [base |-> Slice(s, from, end), ext |-> Slice(s, startDot, end)]

PathBase(s) == PathParse(s).base
PathExt(s) == PathParse(s).ext

\* Number.prototype.toString() of a natural number.
RECURSIVE NumberToString(_)
NumberToString(n) ==
    IF n < 10 THEN <<Digits[n + 1]>>
    ELSE NumberToString(n \div 10) \o <<Digits[(n % 10) + 1]>>

\* The parts of s between its "/" characters.
RECURSIVE SplitPath(_)
SplitPath(s) ==
    IF "/" \notin Range(s) THEN <<s>>
    ELSE LET i == CHOOSE k \in 1..Len(s) :
                    s[k] = "/" /\ \A j \in 1..(k - 1) : s[j] # "/"
         IN  <<SubSeq(s, 1, i - 1)>> \o SplitPath(SubSeq(s, i + 1, Len(s)))

\* normalizeString of the path module: "" and "." parts are dropped, a ".."
\* part takes away the part before it, and is kept where there is none to take
\* and the path may climb.
RECURSIVE NormalizeParts(_, _, _)
NormalizeParts(parts, res, allowAboveRoot) ==
    IF Len(parts) = 0 THEN res
    ELSE LET p == Head(parts) IN
         NormalizeParts(Tail(parts),
            IF p = <<>> \/ p = <<".">> THEN res
            ELSE IF p = <<".", ".">> THEN
                IF Len(res) > 0 /\ res[Len(res)] # <<".", ".">>
                THEN SubSeq(res, 1, Len(res) - 1)
                ELSE IF allowAboveRoot THEN Append(res, p) ELSE res
            ELSE Append(res, p),
            allowAboveRoot)

\* The parts with "/" between them.
RECURSIVE JoinParts(_)
JoinParts(parts) ==
    IF Len(parts) = 0 THEN <<>>
    ELSE IF Len(parts) = 1 THEN parts[1]
    ELSE parts[1] \o <<"/">> \o JoinParts(Tail(parts))

\* path.normalize(p)
PathNormalize(s) ==
    IF Len(s) = 0 THEN <<".">>
    ELSE LET isAbsolute == s[1] = "/"
             trailingSeparator == s[Len(s)] = "/"
             body == JoinParts(NormalizeParts(SplitPath(s), <<>>, ~isAbsolute))
         IN  IF Len(body) = 0
             THEN IF isAbsolute THEN <<"/">>
                  ELSE IF trailingSeparator THEN <<".", "/">> ELSE <<".">>
             ELSE (IF isAbsolute THEN <<"/">> ELSE <<>>) \o body
                  \o (IF trailingSeparator THEN <<"/">> ELSE <<>>)

\* path.join(a, b): the arguments that are not empty, "/" between them,
\* normalized.
PathJoin(a, b) ==
    IF Len(a) = 0 /\ Len(b) = 0 THEN <<".">>
    ELSE IF Len(a) = 0 THEN PathNormalize(b)
    ELSE IF Len(b) = 0 THEN PathNormalize(a)
    ELSE PathNormalize(a \o <<"/">> \o b)

\* String.prototype.substring(1)
Substring1(s) == IF Len(s) <= 1 THEN <<>> ELSE SubSeq(s, 2, Len(s))

----------------------------------------------------------------------------
(* getContentType (FileProvider) *)

XML == <<"x","m","l">>
PNG == <<"p","n","g">>
JPG == <<"j","p","g">>
JPEG == <<"j","p","e","g">>
GIF == <<"g","i","f">>
MP4 == <<"m","p","4">>
AVI == <<"a","v","i">>
MOV == <<"m","o","v">>
MP3 == <<"m","p","3">>
MPGA == <<"m","p","g","a">>
PDF == <<"p","d","f">>

ImagePrefix == <<"i","m","a","g","e","/">>
VideoPrefix == <<"v","i","d","e","o","/">>
OctetStream == <<"a","p","p","l","i","c","a","t","i","o","n","/",
                 "o","c","t","e","t","-","s","t","r","e","a","m">>

getContentType(fileExtension) ==
    LET e == ToLowerCase(fileExtension) IN
    IF e = XML THEN <<"a","p","p","l","i","c","a","t","i","o","n","/","x","m","l">>
    ELSE IF e \in {PNG, JPG, JPEG, GIF} THEN ImagePrefix \o fileExtension
    ELSE IF e \in {MP4, AVI, MOV} THEN VideoPrefix \o fileExtension
    ELSE IF e \in {MP3, MPGA} THEN <<"a","u","d","i","o","/","m","p","3">>
    ELSE IF e = PDF THEN <<"a","p","p","l","i","c","a","t","i","o","n","/","p","d","f">>
    ELSE OctetStream

----------------------------------------------------------------------------
(* The storage gateway: inputs. *)

DISK == "DISK"
BUCKET == "BUCKET"

\* One file id: no operation reads or writes the directory or the keys of
\* another id.
FileIds == {1}

NameA == <<"a", ".", "t", "x", "t">>
NameB == <<"b", ".", "P", "N", "G">>
Names == {NameA, NameB}

\* A name that is no encoding.
NoEncoding == <<"f","o","o">>

\* UploadObject values (src/dto/file-object.ts): originalName, encoding, base64.
Payloads ==
    { [originalName |-> NameA, encoding |-> BASE64, base64 |-> <<"Q","Q","=","=">>],
      [originalName |-> NameB, encoding |-> <<"B","A","S","E","6","4">>,
                               base64 |-> <<"Q","U","I">>],
      [originalName |-> NameA, encoding |-> UTF8, base64 |-> <<"Q","Q">>],
      [originalName |-> NameA, encoding |-> NoEncoding, base64 |-> <<"Q","Q">>] }

NoPayload == [originalName |-> <<>>, encoding |-> <<>>, base64 |-> <<>>]

\* Files values handed to the gateway: id and original_name.
Records == [id : FileIds, original_name : Names]

\* Messages of the errors of the collaborators.
MkdirMessage == "EACCES: permission denied, mkdir"
ScandirMessage == "ENOENT: no such file or directory, scandir"
RemoteMessage == "remote request failed"

\* What a call gave its caller.
Ret(op, id, status, name, base64, errKind, msg) ==
    [op |-> op, id |-> id, status |-> status, name |-> name,
     base64 |-> base64, extensionName |-> <<>>, encoding |-> <<>>,
     errKind |-> errKind, msg |-> msg]

RetOk(op, id) == Ret(op, id, "ok", <<>>, <<>>, "", "")

\* throw new BadRequestException(error.message)
BadRequest(op, id, message) ==
    Ret(op, id, "error", <<>>, <<>>, "BadRequestException", message)

\* An error of a collaborator that the method lets through unchanged.
Raised(op, id, message) == Ret(op, id, "error", <<>>, <<>>, "Error", message)

\* The fileObject getFileDetails fills in.
FileObjectOf(id, originalName, base64) ==
    [Ret("details", id, "ok", originalName, base64, "", "")
        EXCEPT !.extensionName = PathExt(originalName), !.encoding = BASE64]

\* A store, update or remove that returned: its payload (for a remove, the name
\* of its record), whether it returned normally, and whether it repeats the
\* call that returned before it on the same id.
Mut(op, p, ok, twice) == [op |-> op, p |-> p, ok |-> ok, twice |-> twice]

----------------------------------------------------------------------------
(* The disk and the object store. *)

DirNames(id) == {f.name : f \in files[id]}

\* A completed fs.writeFile(path, data, encoding): the file holds the bytes.
WithFile(entries, name, bytes) ==
    {f \in entries : f.name # name} \cup {[name |-> name, bytes |-> bytes]}

\* `${fileId}/${originalName}`
ObjectKey(id, name) == [id |-> id, name |-> name]

\* bucketProvider.uploadFile(base64, fileName, contentType), when it succeeds.
PutObject(objects, key, body, contentType) ==
    {o \in objects : o.key # key}
        \cup {[key |-> key, body |-> body, contentType |-> contentType]}

\* bucketProvider.deleteFile(fileName), when it succeeds.
DropObject(objects, key) == {o \in objects : o.key # key}

\* A row of the files table (Files: id, path, original_name), and no row.
FileRow(path, original_name) ==
    [exists |-> TRUE, removed |-> FALSE, path |-> path, original_name |-> original_name]
NoRow == [exists |-> FALSE, removed |-> FALSE, path |-> <<>>, original_name |-> <<>>]

\* What is left where a row was removed: its id is not given again.
RemovedRow == [NoRow EXCEPT !.removed = TRUE]

\* A call or a write in flight: where it stands, the method and its arguments,
\* whether what it awaited succeeded and what that gave, the bytes its write
\* has put down so far, whether the file it opened is still linked under its
\* name, (for a remove) whether it repeats the remove that returned before,
\* the row a findOne gave it or the row it hands to the table, and its
\* originalFileName argument.
InFlight(stage, op, id, p) ==
    [stage |-> stage, op |-> op, id |-> id, p |-> p,
     ok |-> TRUE, body |-> <<>>, n |-> 0, linked |-> FALSE, twice |-> FALSE,
     row |-> NoRow, ofn |-> <<>>]

One(e) == SetToBag({e})

\* The entry e of the calls in flight becomes f.
Moved(pend, e, f) == (pend (-) One(e)) (+) One(f)

\* unlinkSync and rmSync take the name of a file away, not the file from the
\* writers that have it open: their writes go on, to a file nothing lists.
Unlinked(pend, id) ==
    BagOfAll(LAMBDA e : IF e.id = id /\ e.stage = "open"
                        THEN [e EXCEPT !.linked = FALSE] ELSE e, pend)

\* The bytes fs.writeFile(path, data, encoding) has to write.
DataOf(e) == EncodeString(e.p.base64, e.p.encoding)

\* write(fd, chunk) at offset n of a file holding bytes: the chunk replaces
\* what was there, and a gap before it reads as zeros.
WriteAt(bytes, n, chunk) ==
    [i \in 1..(IF Len(bytes) > n + Len(chunk) THEN Len(bytes) ELSE n + Len(chunk)) |->
        IF i > n /\ i <= n + Len(chunk) THEN chunk[i - n]
        ELSE IF i <= Len(bytes) THEN bytes[i] ELSE 0]

\* The Files value of a call as the payload of its entry.
RecordPayload(rec) == [NoPayload EXCEPT !.originalName = rec.original_name]

----------------------------------------------------------------------------
(* FileProvider: store, update, remove. *)

\* uploadFiles, BUCKET branch, up to its await: the content type of the
\* name's extension is computed and bucketProvider.uploadFile is called.
UploadFilesBucket(p, id) ==
    /\ storageType = BUCKET
    /\ BagCardinality(pending) < MaxPending
    /\ pending' = pending (+) One(InFlight("remote", "store", id, p))
    /\ UNCHANGED <<storageType, dir, files, bucket, ret, lastMut, crashed>>

\* uploadFiles, DISK branch, up to its await: fs.promises.mkdir is issued.
UploadFilesDisk(p, id) ==
    /\ storageType = DISK
    /\ BagCardinality(pending) < MaxPending
    /\ pending' = pending (+) One(InFlight("mkdir", "store", id, p))
    /\ UNCHANGED <<storageType, dir, files, bucket, ret, lastMut, crashed>>

uploadFiles(p, id) == UploadFilesBucket(p, id) \/ UploadFilesDisk(p, id)

\* updateFile, BUCKET branch, up to its await: the upload alone is called; the
\* method deletes nothing.
UpdateFileBucket(p, id) ==
    /\ storageType = BUCKET
    /\ BagCardinality(pending) < MaxPending
    /\ pending' = pending (+) One(InFlight("remote", "update", id, p))
    /\ UNCHANGED <<storageType, dir, files, bucket, ret, lastMut, crashed>>

\* An updateFile that would leave the old entries in place until its write.
UpdateFileDiskKeepingOld(p, id) ==
    /\ storageType = DISK
    /\ IF dir[id]
       THEN /\ BagCardinality(pending) < MaxPending
            /\ pending' = pending (+) One(InFlight("mkdir", "update", id, p))
            /\ UNCHANGED <<files, ret, lastMut>>
       ELSE /\ ret' = BadRequest("update", id, ScandirMessage)
            /\ lastMut' = [lastMut EXCEPT ![id] = Mut("update", p, FALSE, FALSE)]
            /\ UNCHANGED <<files, pending>>
    /\ UNCHANGED <<storageType, dir, bucket, crashed>>

\* updateFile, DISK branch, up to its await: readdirSync of the directory
\* (which throws when it is missing), unlinkSync of every entry, then
\* fs.promises.mkdir is issued.
UpdateFileDisk(p, id) ==
    /\ storageType = DISK
    /\ IF dir[id]
       THEN /\ BagCardinality(pending) < MaxPending
            /\ files' = [files EXCEPT ![id] = {}]
            /\ pending' = Unlinked(pending, id) (+) One(InFlight("mkdir", "update", id, p))
            /\ UNCHANGED <<ret, lastMut>>
       ELSE /\ ret' = BadRequest("update", id, ScandirMessage)
            /\ lastMut' = [lastMut EXCEPT ![id] = Mut("update", p, FALSE, FALSE)]
            /\ UNCHANGED <<files, pending>>
    /\ UNCHANGED <<storageType, dir, bucket, crashed>>

updateFile(p, id) == UpdateFileBucket(p, id) \/ UpdateFileDisk(p, id)

\* The remote side of an awaited bucketProvider call does its work, or fails:
\* uploadFile puts the object under `${id}/${originalName}`, deleteFile drops
\* it, getFile reads its body (it cannot succeed without the object). The
\* caller has not been resumed yet.
BucketSettled(e) ==
    /\ e \in BagToSet(pending)
    /\ e.stage = "remote"
    /\ LET key == ObjectKey(e.id, e.p.originalName)
           held == {o \in bucket : o.key = key}
       IN \E ok \in BOOLEAN :
            /\ (e.op = "details" /\ ok) => held # {}
            /\ bucket' = IF ~ok THEN bucket
                         ELSE IF e.op \in {"store", "update"}
                         THEN PutObject(bucket, key, e.p.base64,
                                  getContentType(Substring1(PathExt(e.p.originalName))))
                         ELSE IF e.op = "remove" THEN DropObject(bucket, key)
                         ELSE bucket
            /\ pending' = Moved(pending, e,
                   [e EXCEPT !.stage = "settled", !.ok = ok,
                             !.body = IF ok /\ e.op = "details"
                                      THEN (CHOOSE o \in held : TRUE).body ELSE <<>>])
    /\ UNCHANGED <<storageType, dir, files, ret, lastMut, crashed>>

\* The method is resumed after its awaited bucketProvider call and returns.
\* uploadFiles and updateFile rethrow a failure as BadRequestException with its
\* message; deleteFile and getFileDetails have no catch and let it through;
\* getFileDetails fills in the fileObject.
BucketReturned(e) ==
    /\ e \in BagToSet(pending)
    /\ e.stage = "settled"
    /\ pending' = pending (-) One(e)
    /\ ret' = IF e.ok
              THEN IF e.op = "details"
                   THEN FileObjectOf(e.id, e.p.originalName, e.body)
                   ELSE RetOk(e.op, e.id)
              ELSE IF e.op \in {"store", "update"}
                   THEN BadRequest(e.op, e.id, RemoteMessage)
                   ELSE Raised(e.op, e.id, RemoteMessage)
    /\ lastMut' = IF e.op = "details" THEN lastMut
                  ELSE [lastMut EXCEPT ![e.id] = Mut(e.op, e.p, e.ok, e.twice)]
    /\ UNCHANGED <<storageType, dir, files, bucket, crashed>>

\* The awaited fs.promises.mkdir(storagePath, {recursive: true}) does its
\* work: the directory exists, or (only a directory that has to be created can
\* fail) the call fails. The caller has not been resumed yet.
MkdirSettled(e) ==
    /\ e \in BagToSet(pending)
    /\ e.stage = "mkdir"
    /\ \/ /\ dir' = [dir EXCEPT ![e.id] = TRUE]
          /\ pending' = Moved(pending, e, [e EXCEPT !.stage = "made"])
       \/ /\ ~dir[e.id]
          /\ dir' = dir
          /\ pending' = Moved(pending, e, [e EXCEPT !.stage = "made", !.ok = FALSE])
    /\ UNCHANGED <<storageType, files, bucket, ret, lastMut, crashed>>

\* uploadFiles or updateFile is resumed after its mkdir. Resolved:
\* fs.writeFile is started and the method returns without waiting for it;
\* when fs.writeFile throws on the encoding nothing is started and the catch
\* rethrows as BadRequestException. Rejected: the catch rethrows as
\* BadRequestException.
MkdirResolved(e) ==
    /\ e \in BagToSet(pending)
    /\ e.stage = "made" /\ e.ok
    /\ IF WriteFileThrows(e.p.encoding)
       THEN /\ pending' = pending (-) One(e)
            /\ ret' = BadRequest(e.op, e.id, EncodingMessage(e.p.encoding))
            /\ lastMut' = [lastMut EXCEPT ![e.id] = Mut(e.op, e.p, FALSE, FALSE)]
       ELSE /\ pending' = Moved(pending, e, [e EXCEPT !.stage = "write"])
            /\ ret' = RetOk(e.op, e.id)
            /\ lastMut' = [lastMut EXCEPT ![e.id] = Mut(e.op, e.p, TRUE, FALSE)]
    /\ UNCHANGED <<storageType, dir, files, bucket, crashed>>

MkdirRejected(e) ==
    /\ e \in BagToSet(pending)
    /\ e.stage = "made" /\ ~e.ok
    /\ pending' = pending (-) One(e)
    /\ ret' = BadRequest(e.op, e.id, MkdirMessage)
    /\ lastMut' = [lastMut EXCEPT ![e.id] = Mut(e.op, e.p, FALSE, FALSE)]
    /\ UNCHANGED <<storageType, dir, files, bucket, crashed>>

\* fs.writeFile opens its file with flag 'w': the name is created in the
\* directory, or the file already under the name is cut to no bytes. The open
\* of a path in a missing directory cannot succeed.
WriteOpened(e) ==
    /\ e \in BagToSet(pending)
    /\ e.stage = "write"
    /\ dir[e.id]
    /\ files' = [files EXCEPT ![e.id] = WithFile(@, e.p.originalName, <<>>)]
    /\ pending' = Moved(pending, e, [e EXCEPT !.stage = "open", !.linked = TRUE])
    /\ UNCHANGED <<storageType, dir, bucket, ret, lastMut, crashed>>

\* fs.writeFile writes some of the bytes still to write, at its own offset.
\* A file that has lost its name takes the bytes without anything listing it.
WriteProgress(e) ==
    /\ e \in BagToSet(pending)
    /\ e.stage = "open"
    /\ e.n < Len(DataOf(e))
    /\ \E k \in 1..(Len(DataOf(e)) - e.n) :
         /\ files' = IF e.linked
                     THEN [files EXCEPT ![e.id] =
                            {IF f.name = e.p.originalName
                             THEN [f EXCEPT !.bytes =
                                     WriteAt(@, e.n, SubSeq(DataOf(e), e.n + 1, e.n + k))]
                             ELSE f : f \in @}]
                     ELSE files
         /\ pending' = Moved(pending, e, [e EXCEPT !.n = e.n + k])
    /\ UNCHANGED <<storageType, dir, bucket, ret, lastMut, crashed>>

\* The write callback, err absent: every byte is written and the file closed.
\* The callback does nothing.
WriteSucceeded(e) ==
    /\ e \in BagToSet(pending)
    /\ e.stage = "open"
    /\ e.n = Len(DataOf(e))
    /\ pending' = pending (-) One(e)
    /\ UNCHANGED <<storageType, dir, files, bucket, ret, lastMut, crashed>>

\* The write callback, err present (the open, a write or the close failed):
\* fs.rmSync(storagePath, {recursive: true}). Without `force` rmSync throws
\* when the directory is missing, inside the callback, where nothing catches
\* it: the process ends and with it the calls in flight.
WriteFailed(e) ==
    /\ e \in BagToSet(pending)
    /\ e.stage \in {"write", "open"}
    /\ IF dir[e.id]
       THEN /\ dir' = [dir EXCEPT ![e.id] = FALSE]
            /\ files' = [files EXCEPT ![e.id] = {}]
            /\ pending' = Unlinked(pending (-) One(e), e.id)
            /\ crashed' = crashed
       ELSE /\ crashed' = TRUE
            /\ pending' = EmptyBag
            /\ UNCHANGED <<dir, files>>
    /\ UNCHANGED <<storageType, bucket, ret, lastMut>>

\* The record of a remove, and whether the call before it on the id was a
\* remove of the same record that returned normally.
RemovedBefore(rec) ==
    /\ lastMut[rec.id].op = "remove"
    /\ lastMut[rec.id].ok
    /\ lastMut[rec.id].p.originalName = rec.original_name

RemoveMut(rec, ok) == Mut("remove", RecordPayload(rec), ok, RemovedBefore(rec))

\* deleteFile, BUCKET branch, up to its await: bucketProvider.deleteFile of
\* `${id}/${original_name}` is called.
DeleteFileBucket(rec) ==
    /\ storageType = BUCKET
    /\ BagCardinality(pending) < MaxPending
    /\ pending' = pending (+)
          One([InFlight("remote", "remove", rec.id, RecordPayload(rec))
                  EXCEPT !.twice = RemovedBefore(rec)])
    /\ UNCHANGED <<storageType, dir, files, bucket, ret, lastMut, crashed>>

\* deleteFile on disk as it would be without `force`: rmSync of a missing
\* directory throws.
DeleteFileDiskNoForce(rec) ==
    /\ storageType = DISK
    /\ IF dir[rec.id]
       THEN /\ dir' = [dir EXCEPT ![rec.id] = FALSE]
            /\ files' = [files EXCEPT ![rec.id] = {}]
            /\ pending' = Unlinked(pending, rec.id)
            /\ ret' = RetOk("remove", rec.id)
            /\ lastMut' = [lastMut EXCEPT ![rec.id] = RemoveMut(rec, TRUE)]
       ELSE /\ ret' = Raised("remove", rec.id, ScandirMessage)
            /\ lastMut' = [lastMut EXCEPT ![rec.id] = RemoveMut(rec, FALSE)]
            /\ UNCHANGED <<dir, files, pending>>
    /\ UNCHANGED <<storageType, bucket, crashed>>

\* deleteFile, DISK branch: rmSync of the directory with recursive and force,
\* and the method returns.
DeleteFileDisk(rec) ==
    /\ storageType = DISK
    /\ dir' = [dir EXCEPT ![rec.id] = FALSE]
    /\ files' = [files EXCEPT ![rec.id] = {}]
    /\ pending' = Unlinked(pending, rec.id)
    /\ ret' = RetOk("remove", rec.id)
    /\ lastMut' = [lastMut EXCEPT ![rec.id] = RemoveMut(rec, TRUE)]
    /\ UNCHANGED <<storageType, bucket, crashed>>

deleteFile(rec) == DeleteFileBucket(rec) \/ DeleteFileDisk(rec)

----------------------------------------------------------------------------
(* FileProvider: the reads. *)

\* fs.readdirSync(filepath)[0]: the entry the directory lists first. The order
\* of a listing is the file system's, so any entry may be the first.
FirstEntries(id) == IF dir[id] THEN files[id] ELSE {}

\* getFilePathByFileId: the path of the first entry; null when readdirSync
\* throws (no directory) or join throws on the undefined first entry of an
\* empty listing. A path is modelled by its file id and its base name.
getFilePathByFileId(id) ==
    /\ \/ /\ FirstEntries(id) = {}
          /\ ret' = Ret("resolve", id, "null", <<>>, <<>>, "", "")
       \/ \E f \in FirstEntries(id) :
             ret' = Ret("resolve", id, "ok", f.name, <<>>, "", "")
    /\ UNCHANGED <<storageType, dir, files, bucket, pending, lastMut, crashed>>

\* getFileDetails, BUCKET branch, up to its await: bucketProvider.getFile of
\* `${id}/${original_name}` is called.
GetFileDetailsBucket(rec) ==
    /\ storageType = BUCKET
    /\ BagCardinality(pending) < MaxPending
    /\ pending' = pending (+) One(InFlight("remote", "details", rec.id, RecordPayload(rec)))
    /\ UNCHANGED <<storageType, dir, files, bucket, ret, lastMut, crashed>>

\* getFileDetails, DISK branch: null without a path, else the bytes of the
\* file read back as base64.
GetFileDetailsDisk(rec) ==
    /\ storageType = DISK
    /\ \/ /\ FirstEntries(rec.id) = {}
          /\ ret' = Ret("details", rec.id, "null", <<>>, <<>>, "", "")
       \/ \E f \in FirstEntries(rec.id) :
             ret' = FileObjectOf(rec.id, f.name, Base64Encode(f.bytes))
    /\ UNCHANGED <<storageType, dir, files, bucket, pending, lastMut, crashed>>

getFileDetails(rec) == GetFileDetailsBucket(rec) \/ GetFileDetailsDisk(rec)

----------------------------------------------------------------------------
(* The gateway as a state machine. *)

BatchIdle ==
    /\ batch = <<>> /\ bpc = "idle" /\ bidx = 0
    /\ urls = <<>> /\ passed = {} /\ dropped = {}

ExIdle == exIn = <<>> /\ exOut = [extensionName |-> <<>>, base64 |-> <<>>, done |-> FALSE]

CtIdle == ctIn = <<>> /\ ctOut = [contentType |-> <<>>, by |-> "", done |-> FALSE]

\* checkImageSizeAndDecreaseImageQuality before a call: its arguments, its
\* locals, its position, and what it has done to the disk so far.
ReducerAt(filePath, fileSize) ==
    [pc |-> "start", filePath |-> filePath, fileSize |-> fileSize,
     sizeOfFile |-> 0, quality |-> 0, newFilePath |-> <<>>,
     measures |-> 0, encodes |-> 0, writes |-> {}, result |-> <<>>, error |-> ""]

ReducerIdle == reducer = [ReducerAt(<<>>, 0) EXCEPT !.pc = "idle"]

\* No row of the files table.
RecordsIdle == records = <<>>

\* Runs of removeTempFiles that may be under way (called, their callback not
\* yet over) when it is called again.
MaxRuns == 2

RunSlots == 1..MaxRuns

\* A run of removeTempFiles: where it stands ("free" for none), the listing
\* still to visit, and the entries and the clock at the call.
FreeRun == [stage |-> "free", files |-> <<>>, before |-> {}, calledAt |-> 0]

\* No run of removeTempFiles has completed.
NoRunDone ==
    [done |-> FALSE, before |-> {}, calledAt |-> 0, endedAt |-> 0, left |-> {},
     alongside |-> 0]

\* removeTempFiles before any call: the entries of <DISK_STORAGE_PATH>/temp,
\* the clock, the runs under way, the run whose callback has the thread (0 for
\* none), the run that completed last, and whether an exception has ended the
\* process.
TempAt(entries, now) ==
    [entries |-> entries, now |-> now,
     runs |-> [s \in RunSlots |-> FreeRun],
     turn |-> 0, last |-> NoRunDone, crashed |-> FALSE]

TempIdle == temp = TempAt({}, 0)

AuxIdle == CtIdle /\ ReducerIdle /\ RecordsIdle /\ TempIdle

Init ==
    /\ storageType \in {DISK, BUCKET}
    /\ dir = [id \in FileIds |-> FALSE]
    /\ files = [id \in FileIds |-> {}]
    /\ bucket = {}
    /\ pending = EmptyBag
    /\ ret = Ret("none", 0, "ok", <<>>, <<>>, "", "")
    /\ lastMut = [id \in FileIds |-> Mut("none", NoPayload, TRUE, FALSE)]
    /\ crashed = FALSE
    /\ BatchIdle
    /\ ExIdle
    /\ AuxIdle

Next ==
    \/ \E p \in Payloads, id \in FileIds : uploadFiles(p, id) /\ UNCHANGED <<batchVars, exVars, auxVars>>
    \/ \E p \in Payloads, id \in FileIds : updateFile(p, id) /\ UNCHANGED <<batchVars, exVars, auxVars>>
    \/ \E rec \in Records : deleteFile(rec) /\ UNCHANGED <<batchVars, exVars, auxVars>>
    \/ \E e \in BagToSet(pending) : BucketSettled(e) /\ UNCHANGED <<batchVars, exVars, auxVars>>
    \/ \E e \in BagToSet(pending) : BucketReturned(e) /\ UNCHANGED <<batchVars, exVars, auxVars>>
    \/ \E e \in BagToSet(pending) : MkdirSettled(e) /\ UNCHANGED <<batchVars, exVars, auxVars>>
    \/ \E e \in BagToSet(pending) : MkdirResolved(e) /\ UNCHANGED <<batchVars, exVars, auxVars>>
    \/ \E e \in BagToSet(pending) : MkdirRejected(e) /\ UNCHANGED <<batchVars, exVars, auxVars>>
    \/ \E e \in BagToSet(pending) : WriteOpened(e) /\ UNCHANGED <<batchVars, exVars, auxVars>>
    \/ \E e \in BagToSet(pending) : WriteProgress(e) /\ UNCHANGED <<batchVars, exVars, auxVars>>
    \/ \E e \in BagToSet(pending) : WriteSucceeded(e) /\ UNCHANGED <<batchVars, exVars, auxVars>>
    \/ \E e \in BagToSet(pending) : WriteFailed(e) /\ UNCHANGED <<batchVars, exVars, auxVars>>
    \/ \E id \in FileIds : getFilePathByFileId(id) /\ UNCHANGED <<batchVars, exVars, auxVars>>
    \/ \E rec \in Records : getFileDetails(rec) /\ UNCHANGED <<batchVars, exVars, auxVars>>

Spec == Init /\ [][Next]_vars

----------------------------------------------------------------------------
(* Claims on the gateway, checked under Spec. *)

InFlightOn(id) == {e \in BagToSet(pending) : e.id = id}

\* A store or update on id returned normally and nothing of id is in flight.
Completed(id) ==
    /\ lastMut[id].op \in {"store", "update"}
    /\ lastMut[id].ok
    /\ InFlightOn(id) = {}

\* C1: in disk mode the directory of an id holds at most one file in every
\* reachable state, and exactly one after a completed store or update.
ClaimC1 ==
    storageType = DISK =>
        \A id \in FileIds :
            /\ Cardinality(files[id]) <= 1
            /\ Completed(id) => Cardinality(files[id]) = 1

\* C2: in disk mode, after an update that returned, the directory of the id
\* holds exactly one file, named payload.originalName, and no file under a
\* previous name.
ClaimC2 ==
    storageType = DISK =>
        \A id \in FileIds :
            (lastMut[id].op = "update" /\ lastMut[id].ok)
                => DirNames(id) = {lastMut[id].p.originalName}

\* C3: in disk mode, once store(payload, fileId) has returned,
\* resolveLocationById(fileId) returns a non-null path whose base name is
\* payload.originalName.
ClaimC3 ==
    (/\ storageType = DISK
     /\ ret.op = "resolve"
     /\ lastMut[ret.id].op = "store"
     /\ lastMut[ret.id].ok)
        => /\ ret.status = "ok"
           /\ ret.name = lastMut[ret.id].p.originalName

\* C4: store followed by fetchDetails returns a non-null result whose content
\* decodes to the bytes payload.content decodes to, and whose originalName is
\* payload.originalName. Stated for disk mode, where the code alone decides what
\* is read back.
ClaimC4 ==
    (/\ storageType = DISK
     /\ ret.op = "details"
     /\ lastMut[ret.id].op = "store"
     /\ lastMut[ret.id].ok)
        => /\ ret.status = "ok"
           /\ Base64Decode(ret.base64) =
                  EncodeString(lastMut[ret.id].p.base64, lastMut[ret.id].p.encoding)
           /\ ret.name = lastMut[ret.id].p.originalName

Storage == <<dir, files, bucket>>

\* The location of a record is absent: no directory of its id on disk, no
\* object under its key in the object store.
Absent(id, name) ==
    IF storageType = DISK THEN ~dir[id]
    ELSE \A o \in bucket : o.key # ObjectKey(id, name)

\* C5, as claimed: a remove of a record whose location is already absent
\* leaves the storage as it was, and a remove that repeats a remove that
\* returned never raises.
ClaimC5 ==
    [][/\ \A rec \in Records :
             DeleteFileDisk(rec)
                 => /\ ret'.status = "ok"
                    /\ Absent(rec.id, rec.original_name) => Storage' = Storage
       /\ \A e \in BagToSet(pending) :
             /\ (BucketSettled(e) /\ e.op = "remove"
                     /\ Absent(e.id, e.p.originalName)) => Storage' = Storage
             /\ (BucketReturned(e) /\ e.op = "remove" /\ e.twice)
                    => ret'.status = "ok"]_vars

\* C5, amended: a remove of a record whose location is already absent leaves
\* the storage as it was; on disk a remove never raises, and in bucket mode it
\* raises exactly when its remote delete failed, with the error of that call.
RemoveIdempotent ==
    [][/\ \A rec \in Records :
             DeleteFileDisk(rec)
                 => /\ ret' = RetOk("remove", rec.id)
                    /\ Absent(rec.id, rec.original_name) => Storage' = Storage
       /\ \A e \in BagToSet(pending) :
             /\ (BucketSettled(e) /\ e.op = "remove"
                     /\ Absent(e.id, e.p.originalName)) => Storage' = Storage
             /\ (BucketReturned(e) /\ e.op = "remove")
                    => ret' = IF e.ok THEN RetOk("remove", e.id)
                              ELSE Raised("remove", e.id, RemoteMessage)]_vars

\* C5, witness: on disk, with no other call in flight, a remove was repeated
\* on a removed record and returned.
RemovedTwiceOnDisk ==
    /\ storageType = DISK
    /\ pending = EmptyBag
    /\ ret = RetOk("remove", ret.id)
    /\ \E id \in FileIds :
          lastMut[id].op = "remove" /\ lastMut[id].ok /\ lastMut[id].twice

\* C6: in bucket mode, after an update that returned, the object store holds
\* the new content for the id and no longer an object of the id under a
\* previous name.
ClaimC6 ==
    storageType = BUCKET =>
        \A id \in FileIds :
            (lastMut[id].op = "update" /\ lastMut[id].ok)
                => /\ \E o \in bucket :
                         /\ o.key = ObjectKey(id, lastMut[id].p.originalName)
                         /\ o.body = lastMut[id].p.base64
                   /\ \A o \in bucket :
                         o.key.id = id => o.key.name = lastMut[id].p.originalName

\* C7: store reports failure to its caller: a mkdir that fails, a write that
\* fails and a remote upload that fails each make the store end in an error
\* (a BadRequestException with the underlying message for the remote upload).
ClaimC7 ==
    [][/\ \A e \in BagToSet(pending) :
             (e.op = "store" /\ MkdirRejected(e))
                 => (ret'.op = "store" /\ ret'.status = "error")
       /\ \A e \in BagToSet(pending) :
             (e.op = "store" /\ WriteFailed(e))
                 => (ret'.op = "store" /\ ret'.id = e.id /\ ret'.status = "error")
       /\ \A e \in BagToSet(pending) :
             (e.op = "store" /\ ~e.ok /\ BucketReturned(e))
                 => ret' = BadRequest("store", e.id, RemoteMessage)]_vars

----------------------------------------------------------------------------
(* FileProvider: getFile and getMultipleFiles. *)

\* Records a batch may hold.
MaxBatch == 20
\* Fetches of one batch that may come back without a url.
MaxDrops == 2

HostUrl == "https://host"

PresignCap == 60
PresignStep == 5

\* expireInTime of getMultipleFiles, uncapped: what the code would pass without
\* its conditional.
ExpireInTimeUncapped(n) == n * PresignStep

\* const expireInTime = fileData.length * 5 <= 60 ? fileData.length * 5 : 60
ExpireInTime(n) == IF n * PresignStep <= PresignCap THEN n * PresignStep ELSE PresignCap

\* The fileData of a call: n records, in order.
BatchOf(n) == [i \in 1..n |-> [id |-> i, original_name |-> NameA]]

\* getFile, DISK branch: hostURL + "/file/" + fileData.id, a non-empty string.
DiskUrl(hostURL, file) == [kind |-> "disk", host |-> hostURL, id |-> file.id, expiresIn |-> 0]

\* A url presigned for `${id}/${original_name}` with the lifetime asked for.
PresignedUrl(file, expiresIn) ==
    [kind |-> "presigned", host |-> "", id |-> file.id, expiresIn |-> expiresIn]

\* getMultipleFiles is entered: urls = [] and expireInTime is computed.
GetMultipleFilesEnter ==
    /\ bpc = "idle"
    /\ bpc' = "loop"
    /\ UNCHANGED <<batch, bidx, urls, passed, dropped>>

\* One turn of the loop, up to its await: getFile is called with the record,
\* the host and expireInTime.
GetFileCalled ==
    /\ bpc = "loop" /\ bidx < Len(batch)
    /\ passed' = passed \cup {ExpireInTime(Len(batch))}
    /\ bpc' = "await"
    /\ UNCHANGED <<batch, bidx, urls, dropped>>

\* The loop is resumed in DISK mode: getFile gave the host url, which is
\* pushed with the id of the record.
FetchDisk ==
    /\ bpc = "await"
    /\ storageType = DISK
    /\ LET file == batch[bidx + 1] IN
          urls' = Append(urls, [id |-> file.id, url |-> DiskUrl(HostUrl, file)])
    /\ bidx' = bidx + 1
    /\ bpc' = "loop"
    /\ UNCHANGED <<batch, passed, dropped>>

\* Resumed in BUCKET mode, the presign gave a url: it is pushed.
FetchPresigned ==
    /\ bpc = "await"
    /\ storageType = BUCKET
    /\ LET file == batch[bidx + 1] IN
          urls' = Append(urls, [id |-> file.id,
                                url |-> PresignedUrl(file, ExpireInTime(Len(batch)))])
    /\ bidx' = bidx + 1
    /\ bpc' = "loop"
    /\ UNCHANGED <<batch, passed, dropped>>

\* Resumed in BUCKET mode, the presign gave nothing (a falsy value): `if (url)`
\* skips the record.
FetchEmpty ==
    /\ bpc = "await"
    /\ storageType = BUCKET
    /\ Cardinality(dropped) < MaxDrops
    /\ dropped' = dropped \cup {batch[bidx + 1].id}
    /\ bidx' = bidx + 1
    /\ bpc' = "loop"
    /\ UNCHANGED <<batch, passed, urls>>

\* In BUCKET mode the presign rejected: neither getFile nor getMultipleFiles
\* catches, so the call rejects and its urls are lost.
FetchRejected ==
    /\ bpc = "await"
    /\ storageType = BUCKET
    /\ dropped' = dropped \cup {batch[bidx + 1].id}
    /\ bpc' = "failed"
    /\ UNCHANGED <<batch, bidx, urls, passed>>

\* The loop is over: return urls.
GetMultipleFilesReturn ==
    /\ bpc = "loop" /\ bidx = Len(batch)
    /\ bpc' = "done"
    /\ UNCHANGED <<batch, bidx, urls, passed, dropped>>

GatewayIdle ==
    /\ dir = [id \in FileIds |-> FALSE]
    /\ files = [id \in FileIds |-> {}]
    /\ bucket = {}
    /\ pending = EmptyBag
    /\ ret = Ret("none", 0, "ok", <<>>, <<>>, "", "")
    /\ lastMut = [id \in FileIds |-> Mut("none", NoPayload, TRUE, FALSE)]
    /\ crashed = FALSE

InitBatch ==
    /\ storageType \in {DISK, BUCKET}
    /\ GatewayIdle
    /\ \E n \in 0..MaxBatch : batch = BatchOf(n)
    /\ bpc = "idle" /\ bidx = 0 /\ urls = <<>> /\ passed = {} /\ dropped = {}
    /\ ExIdle
    /\ AuxIdle

NextBatch ==
    \/ GetMultipleFilesEnter /\ UNCHANGED <<gwVars, exVars, auxVars>>
    \/ GetFileCalled /\ UNCHANGED <<gwVars, exVars, auxVars>>
    \/ FetchDisk /\ UNCHANGED <<gwVars, exVars, auxVars>>
    \/ FetchPresigned /\ UNCHANGED <<gwVars, exVars, auxVars>>
    \/ FetchEmpty /\ UNCHANGED <<gwVars, exVars, auxVars>>
    \/ FetchRejected /\ UNCHANGED <<gwVars, exVars, auxVars>>
    \/ GetMultipleFilesReturn /\ UNCHANGED <<gwVars, exVars, auxVars>>

SpecBatch == InitBatch /\ [][NextBatch]_vars

Min(a, b) == IF a < b THEN a ELSE b

\* C8: every per-record fetch of a batch of n records is handed the presign
\* lifetime min(60, 5 * n), which never exceeds 60.
PresignLifetime ==
    \A x \in passed : x = Min(60, 5 * Len(batch)) /\ x <= 60

\* C8, witness: a batch of more than 12 records has handed out its lifetime.
CappedLifetimePassed == 5 * Len(batch) > 60 /\ passed # {} /\ bpc = "done"

\* The ids of the records of the batch whose fetch gave a url, in input order.
RECURSIVE KeptIds(_)
KeptIds(fs) ==
    IF fs = <<>> THEN <<>>
    ELSE (IF fs[1].id \in dropped THEN <<>> ELSE <<fs[1].id>>) \o KeptIds(Tail(fs))

\* C9: a fetch that fails never fails the whole batch: the call returns, and
\* what it returns are the results of all other records, in input order, each
\* with the id of its record.
ClaimC9 ==
    /\ bpc # "failed"
    /\ bpc = "done" => [i \in 1..Len(urls) |-> urls[i].id] = KeptIds(batch)

----------------------------------------------------------------------------
(* FileProvider: extractBase64img. *)

\* Longest payload of the data URIs tried.
MaxPayloadLen == 2

\* \w and "+": the class [\w+] of the pattern.
IsWordPlus(c) ==
    c \in Range(Upper) \cup Range(Lower) \cup Range(Digits) \cup {"_", "+"}

DataImagePrefix == <<"d", "a", "t", "a", ":", "i", "m", "a", "g", "e", "/">>
Base64Marker == <<";", "b", "a", "s", "e", "6", "4", ",">>

StartsWith(s, t) == Len(s) >= Len(t) /\ SubSeq(s, 1, Len(t)) = t

From(s, i) == SubSeq(s, i, Len(s))

\* The length of the longest run of [\w+] characters at the head of s.
RECURSIVE WordRun(_)
WordRun(s) == IF s # <<>> /\ IsWordPlus(s[1]) THEN 1 + WordRun(Tail(s)) ELSE 0

\* data.match(/^data:image\/([\w+]+);base64,([\s\S]+)/): the prefix at the
\* start, a non-empty run of [\w+] (group 1; it must run up to the ";", which is
\* no character of the class), the marker, and every character left, at least
\* one (group 2).
DataUriMatch(data) ==
    IF ~StartsWith(data, DataImagePrefix)
    THEN [ok |-> FALSE, g1 |-> <<>>, g2 |-> <<>>]
    ELSE LET rest == From(data, Len(DataImagePrefix) + 1)
             k == WordRun(rest)
             tail == From(rest, k + 1)
         IN  IF k >= 1 /\ StartsWith(tail, Base64Marker) /\ Len(tail) > Len(Base64Marker)
             THEN [ok |-> TRUE, g1 |-> SubSeq(rest, 1, k),
                   g2 |-> From(tail, Len(Base64Marker) + 1)]
             ELSE [ok |-> FALSE, g1 |-> <<>>, g2 |-> <<>>]

SubJpeg == <<"j", "p", "e", "g">>
SubSvgXml == <<"s", "v", "g", "+", "x", "m", "l">>
SubConstructor == <<"c", "o", "n", "s", "t", "r", "u", "c", "t", "o", "r">>
SubToString == <<"t", "o", "S", "t", "r", "i", "n", "g">>
SubValueOf == <<"v", "a", "l", "u", "e", "O", "f">>
SubHasOwnProperty ==
    <<"h", "a", "s", "O", "w", "n", "P", "r", "o", "p", "e", "r", "t", "y">>
SubToLocaleString ==
    <<"t", "o", "L", "o", "c", "a", "l", "e", "S", "t", "r", "i", "n", "g">>
SubIsPrototypeOf ==
    <<"i", "s", "P", "r", "o", "t", "o", "t", "y", "p", "e", "O", "f">>
SubPropertyIsEnumerable ==
    <<"p", "r", "o", "p", "e", "r", "t", "y", "I", "s", "E", "n", "u", "m", "e", "r", "a", "b", "l", "e">>
SubDefineGetter ==
    <<"_", "_", "d", "e", "f", "i", "n", "e", "G", "e", "t", "t", "e", "r", "_", "_">>
SubDefineSetter ==
    <<"_", "_", "d", "e", "f", "i", "n", "e", "S", "e", "t", "t", "e", "r", "_", "_">>
SubLookupGetter ==
    <<"_", "_", "l", "o", "o", "k", "u", "p", "G", "e", "t", "t", "e", "r", "_", "_">>
SubLookupSetter ==
    <<"_", "_", "l", "o", "o", "k", "u", "p", "S", "e", "t", "t", "e", "r", "_", "_">>
SubProto == <<"_", "_", "p", "r", "o", "t", "o", "_", "_">>

\* The functions an object literal inherits from Object.prototype under their
\* own names.
InheritedFunctions ==
    {SubToString, SubValueOf, SubHasOwnProperty,
     SubToLocaleString, SubIsPrototypeOf, SubPropertyIsEnumerable,
     SubDefineGetter, SubDefineSetter, SubLookupGetter,
     SubLookupSetter}

\* A built-in function named `name` as a string: its source text.
NativeSource(name) ==
    <<"f", "u", "n", "c", "t", "i", "o", "n", " ">> \o name
        \o <<"(", ")", " ", "{", " ", "[", "n", "a", "t", "i", "v", "e", " ", "c", "o", "d", "e", "]", " ", "}">>

\* baseType[match[1]] ? baseType[match[1]] : match[1], as a string. baseType is
\* an object literal: besides its own keys jpeg and svg+xml, a lookup finds what
\* it inherits from Object.prototype: the functions, truthy, that the
\* concatenation turns into their source text (constructor is the function
\* Object), and under __proto__ Object.prototype itself, which the
\* concatenation turns into "[object Object]".
BaseTypeOrSubtype(sub) ==
    IF sub = SubJpeg THEN <<"j", "p", "g">>
    ELSE IF sub = SubSvgXml THEN <<"s", "v", "g">>
    ELSE IF sub = SubConstructor THEN NativeSource(<<"O", "b", "j", "e", "c", "t">>)
    ELSE IF sub \in InheritedFunctions THEN NativeSource(sub)
    ELSE IF sub = SubProto THEN <<"[", "o", "b", "j", "e", "c", "t", " ", "O", "b", "j", "e", "c", "t", "]">>
    ELSE sub

\* extractBase64img(data)
extractBase64img(data) ==
    LET match == DataUriMatch(data)
        extensionName == IF match.ok THEN BaseTypeOrSubtype(match.g1) ELSE <<>>
    IN  [extensionName |-> <<".">> \o extensionName,
         base64 |-> IF match.ok THEN match.g2 ELSE data]

\* The strings tried: a head, a subtype, a marker and a payload, concatenated,
\* and a string that is no data URI at all.
ExHeads == {DataImagePrefix, <<"d", "a", "t", "a", ":", "v", "i", "d", "e", "o", "/">>, <<>>}
ExSubtypes ==
    {SubJpeg, SubSvgXml, SubConstructor, SubToString, SubValueOf, SubProto,
     <<"p", "n", "g">>, <<"J", "P", "E", "G">>, <<"x", "-", "i", "c", "o", "n">>, <<>>}
ExMarkers == {Base64Marker, <<";", "b", "a", "s", "e", "6", "4">>, <<",">>}
PayloadChars == {"A", " ", ";"}
ExPayloads == UNION {[1..n -> PayloadChars] : n \in 0..MaxPayloadLen}
NotADataUri == <<"n", "o", "t", "-", "a", "-", "d", "a", "t", "a", "-", "u", "r", "i">>

ExInputs ==
    {h \o t \o m \o c : h \in ExHeads, t \in ExSubtypes, m \in ExMarkers, c \in ExPayloads}
        \cup {NotADataUri}

ExtractBase64img ==
    /\ ~exOut.done
    /\ exOut' = [extensionName |-> extractBase64img(exIn).extensionName,
                 base64 |-> extractBase64img(exIn).base64,
                 done |-> TRUE]
    /\ UNCHANGED exIn

InitExtract ==
    /\ storageType = DISK
    /\ GatewayIdle
    /\ BatchIdle
    /\ exIn \in ExInputs
    /\ exOut = [extensionName |-> <<>>, base64 |-> <<>>, done |-> FALSE]
    /\ AuxIdle

NextExtract == ExtractBase64img /\ UNCHANGED <<gwVars, batchVars, auxVars>>

SpecExtract == InitExtract /\ [][NextExtract]_vars

\* C10: on an input that does not match the data-URI pattern extractBase64img
\* returns the empty string as the extension and the input unchanged as the
\* content.
ClaimC10 ==
    (exOut.done /\ ~DataUriMatch(exIn).ok)
        => (exOut.extensionName = <<>> /\ exOut.base64 = exIn)

\* The length of the run of characters other than c at the head of s.
RECURSIVE RunUpTo(_, _)
RunUpTo(s, c) == IF s # <<>> /\ s[1] # c THEN 1 + RunUpTo(Tail(s), c) ELSE 0

\* How data reads as data:image/<subtype>;base64,<payload>: the subtype is what
\* stands between the prefix and the first ";", the payload what follows the
\* marker, neither of them empty.
DataImageForm(data) ==
    IF ~StartsWith(data, DataImagePrefix)
    THEN [ok |-> FALSE, subtype |-> <<>>, payload |-> <<>>]
    ELSE LET rest == From(data, Len(DataImagePrefix) + 1)
             k == RunUpTo(rest, ";")
             tail == From(rest, k + 1)
         IN  IF k >= 1 /\ StartsWith(tail, Base64Marker) /\ Len(tail) > Len(Base64Marker)
             THEN [ok |-> TRUE, subtype |-> SubSeq(rest, 1, k),
                   payload |-> From(tail, Len(Base64Marker) + 1)]
             ELSE [ok |-> FALSE, subtype |-> <<>>, payload |-> <<>>]

\* The extension the subtype stands for: jpg for jpeg, svg for svg+xml, the
\* subtype itself otherwise.
ExtensionOfSubtype(sub) ==
    IF sub = SubJpeg THEN <<"j", "p", "g">>
    ELSE IF sub = SubSvgXml THEN <<"s", "v", "g">>
    ELSE sub

\* C11: on an input of the form data:image/<subtype>;base64,<payload>
\* extractBase64img returns the payload as the content and, as the extension, a
\* dot followed by jpg for jpeg, svg for svg+xml and the subtype itself for any
\* other subtype.
ClaimC11 ==
    (exOut.done /\ DataImageForm(exIn).ok)
        => /\ exOut.base64 = DataImageForm(exIn).payload
           /\ exOut.extensionName = <<".">> \o ExtensionOfSubtype(DataImageForm(exIn).subtype)

----------------------------------------------------------------------------
(* getContentType, in its two copies. *)

\* FilesServiceProvider.getContentType: the table of FileProvider without pdf.
FilesServiceProvider_getContentType(fileExtension) ==
    LET e == ToLowerCase(fileExtension) IN
    IF e = XML THEN <<"a","p","p","l","i","c","a","t","i","o","n","/","x","m","l">>
    ELSE IF e \in {PNG, JPG, JPEG, GIF} THEN ImagePrefix \o fileExtension
    ELSE IF e \in {MP4, AVI, MOV} THEN VideoPrefix \o fileExtension
    ELSE IF e \in {MP3, MPGA} THEN <<"a","u","d","i","o","/","m","p","3">>
    ELSE OctetStream

\* The case labels of the two switches.
ContentTypeTable == {XML, PNG, JPG, JPEG, GIF, MP4, AVI, MOV, MP3, MPGA, PDF}
ServiceContentTypeTable == ContentTypeTable \ {PDF}

UpperChar(c) == IF c \in Range(Lower) THEN Upper[IndexOf(Lower, c)] ELSE c

\* Every upper/lower-case spelling of s.
Spellings(s) ==
    {[i \in 1..Len(s) |-> IF i \in S THEN UpperChar(s[i]) ELSE s[i]] : S \in SUBSET (1..Len(s))}

\* The extensions tried: every spelling of every case label, and some strings
\* that are no label.
CtInputs ==
    UNION {Spellings(s) : s \in ContentTypeTable}
        \cup {<<>>, <<"t","x","t">>, <<"T","X","T">>, <<"d","o","c","x">>,
              <<"p","n">>, <<"p","n","g","x">>, <<".","p","n","g">>}

GetContentType ==
    /\ ~ctOut.done
    /\ ctOut' = [contentType |-> getContentType(ctIn), by |-> "FileProvider", done |-> TRUE]
    /\ UNCHANGED ctIn

ServiceGetContentType ==
    /\ ~ctOut.done
    /\ ctOut' = [contentType |-> FilesServiceProvider_getContentType(ctIn),
                 by |-> "FilesServiceProvider", done |-> TRUE]
    /\ UNCHANGED ctIn

InitContentType ==
    /\ storageType = DISK
    /\ GatewayIdle
    /\ BatchIdle
    /\ ExIdle
    /\ ctIn \in CtInputs
    /\ ctOut = [contentType |-> <<>>, by |-> "", done |-> FALSE]
    /\ ReducerIdle
    /\ RecordsIdle
    /\ TempIdle

NextContentType ==
    \/ GetContentType /\ UNCHANGED <<gwVars, batchVars, exVars, reducer, records, temp>>
    \/ ServiceGetContentType /\ UNCHANGED <<gwVars, batchVars, exVars, reducer, records, temp>>

SpecContentType == InitContentType /\ [][NextContentType]_vars

\* The table of the copy that answered, and its answer for the lower-case
\* spelling of the extension.
TableOf(by) == IF by = "FileProvider" THEN ContentTypeTable ELSE ServiceContentTypeTable
LowerCaseAnswer(by, ext) ==
    IF by = "FileProvider" THEN getContentType(ToLowerCase(ext))
    ELSE FilesServiceProvider_getContentType(ToLowerCase(ext))

\* C12: getContentType is case-insensitive: for every spelling of an extension of
\* its table the result is the result for the lower-case spelling (PNG gives
\* image/png), and an extension outside the table gives application/octet-stream.
ClaimC12 ==
    ctOut.done =>
        IF ToLowerCase(ctIn) \in TableOf(ctOut.by)
        THEN ctOut.contentType = LowerCaseAnswer(ctOut.by, ctIn)
        ELSE ctOut.contentType = OctetStream

----------------------------------------------------------------------------
(* checkImageSizeAndDecreaseImageQuality: the image quality reducer. *)

\* Largest file size, in kilobytes, a measurement gives, and largest target.
MaxKB == 2

\* getFileSize: bytes per kilobyte; the quality a run starts at, and its step.
BytesPerKB == 1000
QualityStart == 100
QualityStep == 2

\* The sizes in bytes fs.promises.stat may report: each whole number of
\* kilobytes up to the bound, and one byte more.
FileSizes == {BytesPerKB * k + d : k \in 0..MaxKB, d \in {0, 1}}
TargetSizes == 0..MaxKB

\* The paths tried: with a directory, already a .jpg, and with a dot before
\* the extension's.
ReducerPaths ==
    {<<"t", "/", "a", ".", "p", "n", "g">>, <<"a", ".", "j", "p", "g">>,
     <<".", "/", "a", ".", "p", "n", "g">>}

\* writeImageFile: `${filePath.split(".")[0]}.jpg`
WriteFileName(filePath) ==
    SubSeq(filePath, 1, RunUpTo(filePath, ".")) \o <<".", "j", "p", "g">>

\* sizeOfFile > fileSize, sizeOfFile being the bytes measured divided by 1000
\* and fileSize a number of kilobytes.
Exceeds(bytes, fileSize) == bytes > fileSize * BytesPerKB

\* A loop condition that also runs at the target size.
LoopContinuesNonStrict(bytes, fileSize, quality) ==
    bytes >= fileSize * BytesPerKB /\ quality > 0

\* A loop condition that still runs at quality 0.
LoopContinuesAtZero(bytes, fileSize, quality) ==
    Exceeds(bytes, fileSize) /\ quality >= 0

\* while (sizeOfFile > fileSize && quality > 0)
LoopContinues(bytes, fileSize, quality) ==
    Exceeds(bytes, fileSize) /\ quality > 0

ReducerError == "Failed to check image size and decrease image quality"

\* let sizeOfFile = await this.getFileSize(filePath); quality = 100; ...
MeasureOriginal ==
    /\ reducer.pc = "start"
    /\ \E b \in FileSizes :
         reducer' = [reducer EXCEPT !.pc = "loop", !.sizeOfFile = b,
                                    !.quality = QualityStart,
                                    !.newFilePath = reducer.filePath,
                                    !.measures = @ + 1]

\* decreasedImage.quality(quality); await this.writeImageFile(...)
ReEncode ==
    /\ reducer.pc = "loop"
    /\ LoopContinues(reducer.sizeOfFile, reducer.fileSize, reducer.quality)
    /\ reducer' = [reducer EXCEPT !.pc = "written", !.encodes = @ + 1,
                                  !.writes = @ \cup {WriteFileName(reducer.filePath)}]

\* image.writeAsync rejects: the catch rethrows the generic error.
ReEncodeFailed ==
    /\ reducer.pc = "loop"
    /\ LoopContinues(reducer.sizeOfFile, reducer.fileSize, reducer.quality)
    /\ reducer' = [reducer EXCEPT !.pc = "failed", !.encodes = @ + 1,
                                  !.error = ReducerError]

\* const fileSize = await this.getFileSize(newFile.fileName); sizeOfFile =
\* fileSize; newFilePath = newFile.fileName; quality -= 2
MeasureWritten ==
    /\ reducer.pc = "written"
    /\ \E b \in FileSizes :
         reducer' = [reducer EXCEPT !.pc = "loop", !.sizeOfFile = b,
                                    !.newFilePath = WriteFileName(reducer.filePath),
                                    !.quality = @ - QualityStep,
                                    !.measures = @ + 1]

\* getFileSize throws (stat rejected): the catch rethrows the generic error.
MeasureFailed ==
    /\ reducer.pc \in {"start", "written"}
    /\ reducer' = [reducer EXCEPT !.pc = "failed", !.measures = @ + 1,
                                  !.error = ReducerError]

\* return newFilePath
ReducerReturn ==
    /\ reducer.pc = "loop"
    /\ ~LoopContinues(reducer.sizeOfFile, reducer.fileSize, reducer.quality)
    /\ reducer' = [reducer EXCEPT !.pc = "done", !.result = reducer.newFilePath]

InitReducer ==
    /\ storageType = DISK
    /\ GatewayIdle
    /\ BatchIdle
    /\ ExIdle
    /\ CtIdle
    /\ RecordsIdle
    /\ TempIdle
    /\ \E f \in ReducerPaths, t \in TargetSizes : reducer = ReducerAt(f, t)

NextReducer ==
    \/ MeasureOriginal /\ UNCHANGED <<gwVars, batchVars, exVars, ctIn, ctOut, records, temp>>
    \/ ReEncode /\ UNCHANGED <<gwVars, batchVars, exVars, ctIn, ctOut, records, temp>>
    \/ ReEncodeFailed /\ UNCHANGED <<gwVars, batchVars, exVars, ctIn, ctOut, records, temp>>
    \/ MeasureWritten /\ UNCHANGED <<gwVars, batchVars, exVars, ctIn, ctOut, records, temp>>
    \/ MeasureFailed /\ UNCHANGED <<gwVars, batchVars, exVars, ctIn, ctOut, records, temp>>
    \/ ReducerReturn /\ UNCHANGED <<gwVars, batchVars, exVars, ctIn, ctOut, records, temp>>

\* Every await of the run settles: a step that can be taken is taken.
SpecReducer == InitReducer /\ [][NextReducer]_vars /\ WF_vars(NextReducer)

\* C13: when the size first measured does not exceed the target, the run
\* returns the original path at once: one measurement, no re-encode, no write.
ReturnsOriginalAtOnce ==
    [][(/\ reducer.pc = "loop" /\ reducer.measures = 1
        /\ reducer.sizeOfFile <= reducer.fileSize * 1000)
          => (/\ reducer'.pc = "done"
              /\ reducer'.result = reducer.filePath
              /\ reducer'.measures = 1
              /\ reducer'.encodes = 0
              /\ reducer'.writes = {})]_vars

\* A run that returned on a first measurement exactly at a positive target.
ReturnedAtTarget ==
    /\ reducer.pc = "done"
    /\ reducer.measures = 1
    /\ reducer.fileSize > 0
    /\ reducer.sizeOfFile = reducer.fileSize * 1000
    /\ reducer.result = reducer.filePath

\* C14: the run always terminates: quality is 100 less 2 per completed
\* iteration, an iteration starts only while the size exceeds the target and
\* quality is above 0, there are at most 50 re-encodes, and a run that returns
\* has last measured a size within the target or has reached quality 0.
ReducerTerminates ==
    /\ [](reducer.pc \in {"loop", "written", "done"}
            => /\ reducer.encodes <= 50
               /\ reducer.quality = 100 - 2 * (reducer.measures - 1)
               /\ reducer.pc = "written"
                    => (reducer.sizeOfFile > reducer.fileSize * 1000 /\ reducer.quality > 0)
               /\ reducer.pc = "done"
                    => (reducer.sizeOfFile <= reducer.fileSize * 1000 \/ reducer.quality = 0))
    /\ <>(reducer.pc \in {"done", "failed"})

\* A run that used up its 50 re-encodes and returned above the target.
RanOutOfQuality ==
    /\ reducer.pc = "done"
    /\ reducer.quality = 0
    /\ reducer.encodes = 50
    /\ reducer.sizeOfFile > reducer.fileSize * 1000

----------------------------------------------------------------------------
(* FilesServiceProvider: the copy of the gateway that keeps the files table. *)

\* Rows the files table may come to hold.
MaxRecords == 1

ServiceIds == 1..MaxRecords

\* Methods of the service that may be under way when a further one is called;
\* the writes and the deleteImage that nothing awaits go on besides them.
MaxServiceCalls == 1

\* The stages of what goes on after its method has moved on.
Background == {"write", "open", "delete"}

\* A further method of the service may be called.
Accepting ==
    /\ BagCardinality(pending) < MaxPending
    /\ Cardinality({e \in BagToSet(pending) : e.stage \notin Background}) < MaxServiceCalls

NameN == <<"n", ".", "t", "x", "t">>

\* FileObject values passed to saveFile and updateFileById.
ServicePayloads ==
    { [originalName |-> NameA, encoding |-> BASE64, base64 |-> <<"Q","Q","=","=">>],
      [originalName |-> NameB, encoding |-> BASE64, base64 |-> <<"Q","g","=","=">>],
      [originalName |-> NameA, encoding |-> NoEncoding, base64 |-> <<"Q","Q">>] }

\* The arguments of saveFile and updateFileById after the id: the fileObject
\* and originalFileName, '' when the caller leaves it out.
ServiceCalls ==
    {c \in [fileObject : ServicePayloads, originalFileName : {<<>>, NameN}] :
        c.originalFileName = NameN <=> c.fileObject.originalName = NameB}

\* The data handed to create and update by a caller of the table.
TableData == FileRow(<<"x", "/", "y", ".", "t", "x", "t">>, <<"y", ".", "t", "x", "t">>)

\* path.join(id.toString(), originalName).replace(path.sep, '/')
RowPath(id, originalName) == PathJoin(NumberToString(id), originalName)

\* The key bucketProvider.uploadImage, getImage and deleteImage are handed: the
\* bare name.
ImageKey(name) == ObjectKey(0, name)

TypeErrorMessage == "TypeError"

\* return false
RetFalse(op, id) == Ret(op, id, "false", <<>>, <<>>, "", "")

\* if (!originalFileName) originalFileName = originalName
OriginalFileName(originalFileName, originalName) ==
    IF originalFileName = <<>> THEN originalName ELSE originalFileName

\* create(data) up to its await: abstractCreate(data) is called.
create(data) ==
    /\ Accepting
    /\ pending' = pending (+)
          One([InFlight("create", "create", 0, NoPayload) EXCEPT !.row = data])
    /\ UNCHANGED <<storageType, dir, files, bucket, ret, lastMut, crashed, records>>

\* saveFile up to its first await: this.create({path: ''}) is called.
saveFile(p, originalFileName) ==
    /\ Accepting
    /\ pending' = pending (+)
          One([InFlight("create", "save", 0, p)
                 EXCEPT !.row = FileRow(<<>>, <<>>), !.ofn = originalFileName])
    /\ UNCHANGED <<storageType, dir, files, bucket, ret, lastMut, crashed, records>>

\* The awaited create does its work: the table holds a new row with the data
\* under the next id (an id is given once), or the call fails. A full table
\* takes no row.
CreateSettled(e) ==
    /\ e \in BagToSet(pending)
    /\ e.stage = "create"
    /\ \/ \E id \in ServiceIds :
            /\ records[id] = NoRow
            /\ \A j \in ServiceIds : j < id => records[j] # NoRow
            /\ records' = [records EXCEPT ![id] = e.row]
            /\ pending' = Moved(pending, e, [e EXCEPT !.stage = "created", !.id = id])
       \/ /\ records' = records
          /\ pending' = Moved(pending, e, [e EXCEPT !.stage = "created", !.ok = FALSE])
    /\ UNCHANGED <<storageType, dir, files, bucket, ret, lastMut, crashed>>

\* create is resumed and returns the row, or the rejection leaves it.
CreateReturned(e) ==
    /\ e \in BagToSet(pending)
    /\ e.stage = "created" /\ e.op = "create"
    /\ pending' = pending (-) One(e)
    /\ ret' = IF e.ok THEN RetOk(e.op, e.id) ELSE Raised(e.op, 0, RemoteMessage)
    /\ UNCHANGED <<storageType, dir, files, bucket, lastMut, crashed, records>>

\* saveFile is resumed after create: originalFileName gets its default, the
\* upload (BUCKET) or the mkdir (DISK) is issued. Nothing catches a create
\* that rejected.
SaveCreated(e) ==
    /\ e \in BagToSet(pending)
    /\ e.stage = "created" /\ e.op = "save"
    /\ IF e.ok
       THEN /\ pending' = Moved(pending, e,
                   [e EXCEPT !.stage = IF storageType = BUCKET THEN "upload" ELSE "mkdir",
                             !.ofn = OriginalFileName(@, e.p.originalName)])
            /\ UNCHANGED ret
       ELSE /\ pending' = pending (-) One(e)
            /\ ret' = Raised("save", 0, RemoteMessage)
    /\ UNCHANGED <<storageType, dir, files, bucket, lastMut, crashed, records>>

\* updateFileById up to its first await: this.findOne is called.
\* getFileObjectFromFileId in BUCKET mode and removeFile begin the same way.
updateFileById(id, p, originalFileName) ==
    /\ Accepting
    /\ pending' = pending (+)
          One([InFlight("find", "update", id, p) EXCEPT !.ofn = originalFileName])
    /\ UNCHANGED <<storageType, dir, files, bucket, ret, lastMut, crashed, records>>

\* The awaited findOne does its work: the row of the id as it is now (null
\* without a row), or the call fails.
FindSettled(e) ==
    /\ e \in BagToSet(pending)
    /\ e.stage = "find"
    /\ \/ pending' = Moved(pending, e, [e EXCEPT !.stage = "found", !.row = records[e.id]])
       \/ pending' = Moved(pending, e, [e EXCEPT !.stage = "found", !.ok = FALSE])
    /\ UNCHANGED <<storageType, dir, files, bucket, ret, lastMut, crashed, records>>

\* updateFileById is resumed after findOne: originalFileName gets its default.
\* BUCKET: the upload is issued. DISK: readdirSync (it throws on a missing
\* directory, and nothing catches it), unlinkSync of every entry, then the
\* mkdir is issued.
UpdateFound(e) ==
    /\ e \in BagToSet(pending)
    /\ e.stage = "found" /\ e.op = "update"
    /\ LET f == [e EXCEPT !.ofn = OriginalFileName(@, e.p.originalName)] IN
       IF ~e.ok
       THEN /\ pending' = pending (-) One(e)
            /\ ret' = Raised(e.op, e.id, RemoteMessage)
            /\ UNCHANGED files
       ELSE IF storageType = BUCKET
       THEN /\ pending' = Moved(pending, e, [f EXCEPT !.stage = "upload"])
            /\ UNCHANGED <<files, ret>>
       ELSE IF dir[e.id]
       THEN /\ files' = [files EXCEPT ![e.id] = {}]
            /\ pending' = Moved(Unlinked(pending, e.id), e, [f EXCEPT !.stage = "mkdir"])
            /\ UNCHANGED ret
       ELSE /\ pending' = pending (-) One(e)
            /\ ret' = Raised(e.op, e.id, ScandirMessage)
            /\ UNCHANGED files
    /\ UNCHANGED <<storageType, dir, bucket, lastMut, crashed, records>>

\* The row this.update is handed by saveFile and updateFileById.
RowOf(e) == FileRow(RowPath(e.id, e.p.originalName), e.ofn)

\* saveFile or updateFileById is resumed after a mkdir that resolved:
\* fs.writeFile is started and, without waiting for it, this.update is called.
\* When fs.writeFile throws on the encoding nothing is started, this.update is
\* not called and the error leaves the method.
ServiceMkdirResolved(e) ==
    /\ e \in BagToSet(pending)
    /\ e.stage = "made" /\ e.ok
    /\ IF WriteFileThrows(e.p.encoding)
       THEN /\ pending' = pending (-) One(e)
            /\ ret' = Raised(e.op, e.id, EncodingMessage(e.p.encoding))
       ELSE /\ pending' = Moved(pending, e, [e EXCEPT !.stage = "write"])
                            (+) One([e EXCEPT !.stage = "record", !.row = RowOf(e)])
            /\ UNCHANGED ret
    /\ UNCHANGED <<storageType, dir, files, bucket, lastMut, crashed, records>>

\* Resumed after a mkdir that rejected: the error leaves the method as it is.
ServiceMkdirRejected(e) ==
    /\ e \in BagToSet(pending)
    /\ e.stage = "made" /\ ~e.ok
    /\ pending' = pending (-) One(e)
    /\ ret' = Raised(e.op, e.id, MkdirMessage)
    /\ UNCHANGED <<storageType, dir, files, bucket, lastMut, crashed, records>>

\* The awaited uploadImage(base64, originalName) does its work: the object is
\* stored under the bare name, or the call fails.
UploadSettled(e) ==
    /\ e \in BagToSet(pending)
    /\ e.stage = "upload"
    /\ \/ /\ bucket' = PutObject(bucket, ImageKey(e.p.originalName), e.p.base64, <<>>)
          /\ pending' = Moved(pending, e, [e EXCEPT !.stage = "uploaded"])
       \/ /\ bucket' = bucket
          /\ pending' = Moved(pending, e, [e EXCEPT !.stage = "uploaded", !.ok = FALSE])
    /\ UNCHANGED <<storageType, dir, files, ret, lastMut, crashed, records>>

\* Resumed after an uploadImage that resolved. saveFile goes on to
\* this.update. updateFileById first calls deleteImage(getFileData.original_name)
\* without awaiting it (a TypeError when findOne gave no row), then this.update.
UploadResolved(e) ==
    /\ e \in BagToSet(pending)
    /\ e.stage = "uploaded" /\ e.ok
    /\ IF e.op = "save"
       THEN /\ pending' = Moved(pending, e, [e EXCEPT !.stage = "record", !.row = RowOf(e)])
            /\ UNCHANGED ret
       ELSE IF e.row.exists
       THEN /\ pending' = Moved(pending, e, [e EXCEPT !.stage = "record", !.row = RowOf(e)])
                 (+) One(InFlight("delete", e.op, e.id,
                                  [NoPayload EXCEPT !.originalName = e.row.original_name]))
            /\ UNCHANGED ret
       ELSE /\ pending' = pending (-) One(e)
            /\ ret' = Raised(e.op, e.id, TypeErrorMessage)
    /\ UNCHANGED <<storageType, dir, files, bucket, lastMut, crashed, records>>

\* Resumed after an uploadImage that rejected: the error leaves the method.
UploadRejected(e) ==
    /\ e \in BagToSet(pending)
    /\ e.stage = "uploaded" /\ ~e.ok
    /\ pending' = pending (-) One(e)
    /\ ret' = Raised(e.op, e.id, RemoteMessage)
    /\ UNCHANGED <<storageType, dir, files, bucket, lastMut, crashed, records>>

\* The deleteImage nobody awaits settles: the object of that name is gone, or
\* the call rejects; nothing handles the rejection of a promise nobody holds,
\* and the process ends on it with what it had in flight.
DeleteImageSettled(e) ==
    /\ e \in BagToSet(pending)
    /\ e.stage = "delete"
    /\ \/ /\ bucket' = DropObject(bucket, ImageKey(e.p.originalName))
          /\ pending' = pending (-) One(e)
          /\ crashed' = crashed
       \/ /\ bucket' = bucket
          /\ pending' = EmptyBag
          /\ crashed' = TRUE
    /\ UNCHANGED <<storageType, dir, files, ret, lastMut, records>>

\* update(id, data) up to its await: abstractUpdate(id, data) is called.
update(id, data) ==
    /\ Accepting
    /\ pending' = pending (+)
          One([InFlight("record", "this.update", id, NoPayload) EXCEPT !.row = data])
    /\ UNCHANGED <<storageType, dir, files, bucket, ret, lastMut, crashed, records>>

\* The awaited update does its work: the row gets the path and the
\* original_name it was handed (no row, no change), or the call fails.
RecordSettled(e) ==
    /\ e \in BagToSet(pending)
    /\ e.stage = "record"
    /\ \/ /\ records' = [records EXCEPT ![e.id] = IF @.exists THEN e.row ELSE @]
          /\ pending' = Moved(pending, e, [e EXCEPT !.stage = "recorded"])
       \/ /\ records' = records
          /\ pending' = Moved(pending, e, [e EXCEPT !.stage = "recorded", !.ok = FALSE])
    /\ UNCHANGED <<storageType, dir, files, bucket, ret, lastMut, crashed>>

\* saveFile, updateFileById or update is resumed after the update and
\* returns, or the rejection leaves the method.
RecordUpdated(e) ==
    /\ e \in BagToSet(pending)
    /\ e.stage = "recorded"
    /\ pending' = pending (-) One(e)
    /\ ret' = IF e.ok THEN RetOk(e.op, e.id) ELSE Raised(e.op, e.id, RemoteMessage)
    /\ UNCHANGED <<storageType, dir, files, bucket, lastMut, crashed, records>>

\* remove(id) up to its await: abstractRemove(id) is called.
remove(id) ==
    /\ Accepting
    /\ pending' = pending (+) One(InFlight("unrow", "this.remove", id, NoPayload))
    /\ UNCHANGED <<storageType, dir, files, bucket, ret, lastMut, crashed, records>>

\* removeFile up to its first await: this.findOne is called.
removeFile(id) ==
    /\ Accepting
    /\ pending' = pending (+) One(InFlight("find", "removeFile", id, NoPayload))
    /\ UNCHANGED <<storageType, dir, files, bucket, ret, lastMut, crashed, records>>

\* removeFile is resumed after findOne, whose rejection nothing catches.
\* BUCKET: deleteImage(getFileData.original_name) is called; without a row the
\* TypeError is caught and the method returns false. DISK: rmSync with force
\* takes the directory away, present or not, and this.remove is called.
RemoveFound(e) ==
    /\ e \in BagToSet(pending)
    /\ e.stage = "found" /\ e.op = "removeFile"
    /\ IF ~e.ok
       THEN /\ pending' = pending (-) One(e)
            /\ ret' = Raised(e.op, e.id, RemoteMessage)
            /\ UNCHANGED <<dir, files>>
       ELSE IF storageType = BUCKET
       THEN /\ IF e.row.exists
               THEN /\ pending' = Moved(pending, e, [e EXCEPT !.stage = "unimage"])
                    /\ UNCHANGED ret
               ELSE /\ pending' = pending (-) One(e)
                    /\ ret' = RetFalse(e.op, e.id)
            /\ UNCHANGED <<dir, files>>
       ELSE /\ dir' = [dir EXCEPT ![e.id] = FALSE]
            /\ files' = [files EXCEPT ![e.id] = {}]
            /\ pending' = Moved(Unlinked(pending, e.id), e, [e EXCEPT !.stage = "unrow"])
            /\ UNCHANGED ret
    /\ UNCHANGED <<storageType, bucket, lastMut, crashed, records>>

\* The deleteImage removeFile awaits does its work: the object of the row's
\* original_name is gone, or the call fails.
RemoveImageSettled(e) ==
    /\ e \in BagToSet(pending)
    /\ e.stage = "unimage"
    /\ \/ /\ bucket' = DropObject(bucket, ImageKey(e.row.original_name))
          /\ pending' = Moved(pending, e, [e EXCEPT !.stage = "unimaged"])
       \/ /\ bucket' = bucket
          /\ pending' = Moved(pending, e, [e EXCEPT !.stage = "unimaged", !.ok = FALSE])
    /\ UNCHANGED <<storageType, dir, files, ret, lastMut, crashed, records>>

\* removeFile is resumed after deleteImage: this.remove is called, or the
\* catch returns false.
RemoveImageReturned(e) ==
    /\ e \in BagToSet(pending)
    /\ e.stage = "unimaged"
    /\ IF e.ok
       THEN /\ pending' = Moved(pending, e, [e EXCEPT !.stage = "unrow"])
            /\ UNCHANGED ret
       ELSE /\ pending' = pending (-) One(e)
            /\ ret' = RetFalse(e.op, e.id)
    /\ UNCHANGED <<storageType, dir, files, bucket, lastMut, crashed, records>>

\* The awaited remove does its work: the row is gone (no row, no change), or
\* the call fails.
RowRemoveSettled(e) ==
    /\ e \in BagToSet(pending)
    /\ e.stage = "unrow"
    /\ \/ /\ records' = [records EXCEPT ![e.id] = IF @.exists THEN RemovedRow ELSE @]
          /\ pending' = Moved(pending, e, [e EXCEPT !.stage = "unrowed"])
       \/ /\ records' = records
          /\ pending' = Moved(pending, e, [e EXCEPT !.stage = "unrowed", !.ok = FALSE])
    /\ UNCHANGED <<storageType, dir, files, bucket, ret, lastMut, crashed>>

\* removeFile or remove is resumed after the remove and returns; removeFile
\* catches a rejection and returns false, remove lets it through.
RowRemoved(e) ==
    /\ e \in BagToSet(pending)
    /\ e.stage = "unrowed"
    /\ pending' = pending (-) One(e)
    /\ ret' = IF e.ok THEN RetOk(e.op, e.id)
              ELSE IF e.op = "removeFile" THEN RetFalse(e.op, e.id)
              ELSE Raised(e.op, e.id, RemoteMessage)
    /\ UNCHANGED <<storageType, dir, files, bucket, lastMut, crashed, records>>

\* getFileObjectFromFileId. BUCKET, up to its first await: this.findOne is
\* called. DISK: parse() of what getFilePathByFileId returned, null included,
\* which parse rejects with a TypeError; otherwise the bytes of the file read
\* back as base64.
getFileObjectFromFileId(id) ==
    /\ IF storageType = BUCKET
       THEN /\ Accepting
            /\ pending' = pending (+) One(InFlight("find", "details", id, NoPayload))
            /\ UNCHANGED ret
       ELSE /\ \/ /\ FirstEntries(id) = {}
                  /\ ret' = Raised("details", id, TypeErrorMessage)
               \/ \E f \in FirstEntries(id) :
                     ret' = FileObjectOf(id, f.name, Base64Encode(f.bytes))
            /\ UNCHANGED pending
    /\ UNCHANGED <<storageType, dir, files, bucket, lastMut, crashed, records>>

\* getFileObjectFromFileId is resumed after findOne: getImage of the row's
\* original_name is called (a TypeError without a row).
DetailsFound(e) ==
    /\ e \in BagToSet(pending)
    /\ e.stage = "found" /\ e.op = "details"
    /\ IF ~e.ok
       THEN /\ pending' = pending (-) One(e)
            /\ ret' = Raised(e.op, e.id, RemoteMessage)
       ELSE IF ~e.row.exists
       THEN /\ pending' = pending (-) One(e)
            /\ ret' = Raised(e.op, e.id, TypeErrorMessage)
       ELSE /\ pending' = Moved(pending, e, [e EXCEPT !.stage = "image"])
            /\ UNCHANGED ret
    /\ UNCHANGED <<storageType, dir, files, bucket, lastMut, crashed, records>>

\* The awaited getImage does its work: the body of the object of that name
\* (it cannot succeed without the object), or the call fails.
ImageSettled(e) ==
    /\ e \in BagToSet(pending)
    /\ e.stage = "image"
    /\ LET held == {o \in bucket : o.key = ImageKey(e.row.original_name)} IN
         \/ /\ held # {}
            /\ pending' = Moved(pending, e,
                   [e EXCEPT !.stage = "imaged", !.body = (CHOOSE o \in held : TRUE).body])
         \/ pending' = Moved(pending, e, [e EXCEPT !.stage = "imaged", !.ok = FALSE])
    /\ UNCHANGED <<storageType, dir, files, bucket, ret, lastMut, crashed, records>>

\* getFileObjectFromFileId is resumed after getImage and returns the
\* fileObject, its content file.Body.toString('base64') (the bytes of the
\* object, encoded anew), or the rejection leaves the method.
ImageReturned(e) ==
    /\ e \in BagToSet(pending)
    /\ e.stage = "imaged"
    /\ pending' = pending (-) One(e)
    /\ ret' = IF e.ok
              THEN FileObjectOf(e.id, e.row.original_name,
                                Base64Encode(Base64Decode(e.body)))
              ELSE Raised(e.op, e.id, RemoteMessage)
    /\ UNCHANGED <<storageType, dir, files, bucket, lastMut, crashed, records>>

svcOther == <<batchVars, exVars, ctIn, ctOut, reducer, temp>>

InitService ==
    /\ storageType \in {DISK, BUCKET}
    /\ dir = [id \in ServiceIds |-> FALSE]
    /\ files = [id \in ServiceIds |-> {}]
    /\ bucket = {}
    /\ pending = EmptyBag
    /\ ret = Ret("none", 0, "ok", <<>>, <<>>, "", "")
    /\ lastMut = [id \in ServiceIds |-> Mut("none", NoPayload, TRUE, FALSE)]
    /\ crashed = FALSE
    /\ records = [id \in ServiceIds |-> NoRow]
    /\ BatchIdle
    /\ ExIdle
    /\ CtIdle
    /\ ReducerIdle
    /\ TempIdle

NextService ==
    \/ \E c \in ServiceCalls :
            saveFile(c.fileObject, c.originalFileName) /\ UNCHANGED svcOther
    \/ \E id \in ServiceIds, c \in ServiceCalls :
            updateFileById(id, c.fileObject, c.originalFileName) /\ UNCHANGED svcOther
    \/ \E id \in ServiceIds : removeFile(id) /\ UNCHANGED svcOther
    \/ create(TableData) /\ UNCHANGED svcOther
    \/ \E id \in ServiceIds : update(id, TableData) /\ UNCHANGED svcOther
    \/ \E id \in ServiceIds : remove(id) /\ UNCHANGED svcOther
    \/ \E id \in ServiceIds : getFileObjectFromFileId(id) /\ UNCHANGED svcOther
    \/ \E id \in ServiceIds : getFilePathByFileId(id) /\ UNCHANGED <<svcOther, records>>
    \/ \E e \in BagToSet(pending) : CreateSettled(e) /\ UNCHANGED svcOther
    \/ \E e \in BagToSet(pending) : CreateReturned(e) /\ UNCHANGED svcOther
    \/ \E e \in BagToSet(pending) : SaveCreated(e) /\ UNCHANGED svcOther
    \/ \E e \in BagToSet(pending) : FindSettled(e) /\ UNCHANGED svcOther
    \/ \E e \in BagToSet(pending) : UpdateFound(e) /\ UNCHANGED svcOther
    \/ \E e \in BagToSet(pending) : ServiceMkdirResolved(e) /\ UNCHANGED svcOther
    \/ \E e \in BagToSet(pending) : ServiceMkdirRejected(e) /\ UNCHANGED svcOther
    \/ \E e \in BagToSet(pending) : UploadSettled(e) /\ UNCHANGED svcOther
    \/ \E e \in BagToSet(pending) : UploadResolved(e) /\ UNCHANGED svcOther
    \/ \E e \in BagToSet(pending) : UploadRejected(e) /\ UNCHANGED svcOther
    \/ \E e \in BagToSet(pending) : DeleteImageSettled(e) /\ UNCHANGED svcOther
    \/ \E e \in BagToSet(pending) : RecordSettled(e) /\ UNCHANGED svcOther
    \/ \E e \in BagToSet(pending) : RecordUpdated(e) /\ UNCHANGED svcOther
    \/ \E e \in BagToSet(pending) : RemoveFound(e) /\ UNCHANGED svcOther
    \/ \E e \in BagToSet(pending) : RemoveImageSettled(e) /\ UNCHANGED svcOther
    \/ \E e \in BagToSet(pending) : RemoveImageReturned(e) /\ UNCHANGED svcOther
    \/ \E e \in BagToSet(pending) : RowRemoveSettled(e) /\ UNCHANGED svcOther
    \/ \E e \in BagToSet(pending) : RowRemoved(e) /\ UNCHANGED svcOther
    \/ \E e \in BagToSet(pending) : DetailsFound(e) /\ UNCHANGED svcOther
    \/ \E e \in BagToSet(pending) : ImageSettled(e) /\ UNCHANGED svcOther
    \/ \E e \in BagToSet(pending) : ImageReturned(e) /\ UNCHANGED svcOther
    \/ \E e \in BagToSet(pending) : MkdirSettled(e) /\ UNCHANGED <<svcOther, records>>
    \/ \E e \in BagToSet(pending) : WriteOpened(e) /\ UNCHANGED <<svcOther, records>>
    \/ \E e \in BagToSet(pending) : WriteProgress(e) /\ UNCHANGED <<svcOther, records>>
    \/ \E e \in BagToSet(pending) : WriteSucceeded(e) /\ UNCHANGED <<svcOther, records>>
    \/ \E e \in BagToSet(pending) : WriteFailed(e) /\ UNCHANGED <<svcOther, records>>

SpecService == InitService /\ [][NextService]_vars

\* What the storage holds at the place the path of a row names: on disk the
\* file of that name in the directory of the id, in the object store the
\* object of that name.
StoredAt(id) ==
    IF storageType = DISK
    THEN dir[id] /\ PathBase(records[id].path) \in DirNames(id)
    ELSE \E o \in bucket : o.key = ImageKey(PathBase(records[id].path))

\* C15: a row has a non-empty path only if its write succeeded: a row whose
\* write has failed or has not completed keeps the empty path, so what the
\* path saveFile or updateFileById gave a row names is in the storage.
ClaimC15 ==
    \A id \in ServiceIds, p \in ServicePayloads :
        (records[id].exists /\ records[id].path = RowPath(id, p.originalName))
            => StoredAt(id)

\* C17: in disk mode getFileObjectFromFileId and getFilePathByFileId never
\* raise: on a directory that is missing, empty or unreadable they return null,
\* and otherwise getFilePathByFileId returns the path of the first entry.
ClaimC17 ==
    [][storageType = DISK =>
        \A id \in ServiceIds :
            /\ getFilePathByFileId(id) =>
                 /\ ret'.status # "error"
                 /\ FirstEntries(id) = {} => ret'.status = "null"
                 /\ FirstEntries(id) # {} => (ret'.status = "ok" /\ ret'.name \in DirNames(id))
            /\ getFileObjectFromFileId(id) =>
                 /\ ret'.status # "error"
                 /\ FirstEntries(id) = {} => ret'.status = "null"]_vars

----------------------------------------------------------------------------
(* FileProvider: what a read sees while an update or a remove is under way. *)

\* An updateFile on id has deleted the old entries and has not been resumed
\* after its mkdir.
UpdateAwaiting(pend, id) ==
    \E e \in BagToSet(pend) :
        e.stage \in {"mkdir", "made"} /\ e.op = "update" /\ e.id = id

\* C16: in disk mode update and getFileDetails are not coordinated: an update
\* of an existing directory leaves it empty from its unlink until its write
\* lands, and a getFileDetails in between returns null for the id.
UpdateNotCoordinated ==
    [][storageType = DISK =>
        \A rec \in Records :
            /\ ((\E p \in Payloads : UpdateFileDisk(p, rec.id)) /\ dir[rec.id])
                 => (files'[rec.id] = {} /\ UpdateAwaiting(pending', rec.id))
            /\ (GetFileDetailsDisk(rec) /\ UpdateAwaiting(pending, rec.id)
                    /\ files[rec.id] = {})
                 => ret'.status = "null"]_vars

\* A getFileDetails has returned null while the update of an id whose store
\* had completed is between its unlink and its write.
SeenEmptyDuringUpdate ==
    /\ storageType = DISK
    /\ ret.op = "details"
    /\ ret.status = "null"
    /\ lastMut[ret.id].op = "store"
    /\ lastMut[ret.id].ok
    /\ dir[ret.id]
    /\ files[ret.id] = {}
    /\ UpdateAwaiting(pending, ret.id)
    /\ \A e \in BagToSet(pending) : e.stage \notin {"write", "open"}

\* C19: in disk mode, once a remove of an id has returned, and until the next
\* store or update on the id returns, every state lists nothing for the id
\* (getFilePathByFileId gives null), also when a write started before the
\* remove was still pending: that write does not bring the file back, and the
\* rollback of its failure raises no error.
ClaimC19 ==
    [][\A id \in FileIds :
          (/\ storageType = DISK
           /\ lastMut[id].op = "remove" /\ lastMut[id].ok
           /\ lastMut'[id] = lastMut[id])
             => (/\ (IF dir'[id] THEN files'[id] ELSE {}) = {}
                 /\ crashed' = crashed)]_vars

----------------------------------------------------------------------------
(* removeTempFiles: the purge of the temp directory. *)

\* Entries the temp directory may hold, milliseconds the clock may advance
\* between two readings of it and in all.
MaxTempEntries == 2
MaxTick == 1
MaxAdvance == 2

\* new Date().getTime() when the model starts, in milliseconds.
Now0 == 1000000

\* 1000 * 60 * 5
PurgeThreshold == 1000 * 60 * 5

TempNames == {<<"t", n>> : n \in {Digits[i + 1] : i \in 1..MaxTempEntries}}

\* The last-modified times tried: a millisecond under the threshold, at it,
\* and over it, as of the start.
TempMtimes == {Now0 - PurgeThreshold + d : d \in {-1, 0, 1}}

\* An entry of the temp directory: a file, or a directory.
TempEntry(name, mtime, kind) == [name |-> name, mtime |-> mtime, kind |-> kind]

TempDirs ==
    {es \in SUBSET {TempEntry(n, m, k) : n \in TempNames, m \in TempMtimes, k \in {"file", "dir"}} :
        \A a, b \in es : a.name = b.name => a = b}

\* The orders in which readdir may list a set of entries (their names).
Listings(es) ==
    {l \in [1..Cardinality(es) -> {e.name : e \in es}] :
        \A i, j \in 1..Cardinality(es) : l[i] = l[j] => i = j}

\* The clock readings that may follow the reading `now`.
Later(now) == {t \in now..(now + MaxTick) : t <= Now0 + MaxAdvance}

\* A comparison that also takes an entry exactly at the threshold.
IsStaleInclusive(age) == age >= PurgeThreshold

\* data > 1000 * 60 * 5
IsStale(age) == age > PurgeThreshold

Free(t) == {s \in RunSlots : t.runs[s].stage = "free"}

\* removeTempFiles: fs.readdir is issued and the method returns. Every call
\* issues one, whatever the calls before it have come to; no call is made
\* while a callback has the thread.
removeTempFiles ==
    /\ temp.turn = 0
    /\ Free(temp) # {}
    /\ \E now \in Later(temp.now) :
         LET s == CHOOSE x \in Free(temp) : \A y \in Free(temp) : x <= y IN
         temp' = [temp EXCEPT !.now = now,
                              !.runs[s] = [stage |-> "listing", files |-> <<>>,
                                           before |-> temp.entries, calledAt |-> now]]

\* The readdir of a run reads the directory as it is then, in the order the
\* file system gives, or fails. It may do so while the callback of another
\* run is under way.
ReaddirSettled(s) ==
    /\ temp.runs[s].stage = "listing"
    /\ \/ \E l \in Listings(temp.entries) :
            temp' = [temp EXCEPT !.runs[s].stage = "listed", !.runs[s].files = l]
       \/ temp' = [temp EXCEPT !.runs[s].stage = "failed"]

\* The readdir callback with err: logged, nothing visited, the run is over.
ReaddirFailed(s) ==
    /\ temp.turn = 0
    /\ temp.runs[s].stage = "failed"
    /\ temp' = [temp EXCEPT !.runs[s] = FreeRun]

\* The readdir callback with the listing begins; until it is over no other
\* callback runs.
ReaddirListed(s) ==
    /\ temp.turn = 0
    /\ temp.runs[s].stage = "listed"
    /\ temp' = [temp EXCEPT !.runs[s].stage = "loop", !.turn = s]

\* The process ends on an exception nothing catches, with the runs it had
\* under way.
PurgeCrashed(t, now) ==
    [t EXCEPT !.now = now, !.runs = [s \in RunSlots |-> FreeRun], !.turn = 0,
              !.crashed = TRUE]

\* One turn of files.forEach: statSync of the entry (it throws when the entry
\* is no longer there, and nothing catches it), its age from the clock and its
\* mtime; a stale file is removed by fs.rmSync; on a stale directory rmSync
\* (no recursive option) throws, nothing catches it and the other entries are
\* never visited.
VisitEntry ==
    /\ temp.turn # 0
    /\ temp.runs[temp.turn].files # <<>>
    /\ \E now \in Later(temp.now) :
         LET s == temp.turn
             named == {x \in temp.entries : x.name = Head(temp.runs[s].files)}
             e == CHOOSE x \in named : TRUE
         IN  IF named = {}
             THEN temp' = PurgeCrashed(temp, now)
             ELSE IF ~IsStale(now - e.mtime)
             THEN temp' = [temp EXCEPT !.now = now, !.runs[s].files = Tail(@)]
             ELSE IF e.kind = "file"
             THEN temp' = [temp EXCEPT !.now = now, !.runs[s].files = Tail(@),
                                       !.entries = @ \ {e}]
             ELSE temp' = PurgeCrashed(temp, now)

\* forEach has visited every entry: the callback returns. The run is kept as
\* the last one that completed, with the entries it leaves and the number of
\* other runs under way.
PurgeCompleted ==
    /\ temp.turn # 0
    /\ temp.runs[temp.turn].files = <<>>
    /\ temp' = [temp EXCEPT
                  !.runs[temp.turn] = FreeRun,
                  !.turn = 0,
                  !.last = [done |-> TRUE,
                            before |-> temp.runs[temp.turn].before,
                            calledAt |-> temp.runs[temp.turn].calledAt,
                            endedAt |-> temp.now,
                            left |-> temp.entries,
                            alongside |-> Cardinality(RunSlots \ Free(temp)) - 1]]

\* What is stored outside the temp directory when a purge runs.
StoredOutside ==
    /\ dir = [id \in FileIds |-> TRUE]
    /\ files = [id \in FileIds |-> {[name |-> NameA, bytes |-> <<65>>]}]
    /\ bucket = {}

tempOther == <<gwVars, batchVars, exVars, ctIn, ctOut, reducer, records>>

InitPurge ==
    /\ storageType = DISK
    /\ StoredOutside
    /\ pending = EmptyBag
    /\ ret = Ret("none", 0, "ok", <<>>, <<>>, "", "")
    /\ lastMut = [id \in FileIds |-> Mut("none", NoPayload, TRUE, FALSE)]
    /\ crashed = FALSE
    /\ BatchIdle
    /\ ExIdle
    /\ CtIdle
    /\ ReducerIdle
    /\ RecordsIdle
    /\ \E es \in TempDirs : temp = TempAt(es, Now0)

NextPurge ==
    \/ removeTempFiles /\ UNCHANGED tempOther
    \/ \E s \in RunSlots : ReaddirSettled(s) /\ UNCHANGED tempOther
    \/ \E s \in RunSlots : ReaddirFailed(s) /\ UNCHANGED tempOther
    \/ \E s \in RunSlots : ReaddirListed(s) /\ UNCHANGED tempOther
    \/ VisitEntry /\ UNCHANGED tempOther
    \/ PurgeCompleted /\ UNCHANGED tempOther

SpecPurge == InitPurge /\ [][NextPurge]_vars

\* C18: when a run of removeTempFiles has visited its whole listing, whatever
\* other runs were called before it or alongside it, every entry of the temp
\* directory whose age exceeded 300 s when the run was called is removed, every
\* entry whose age does not exceed 300 s by the end is still there, no entry
\* has appeared, and what is stored outside the temp directory is as it was.
PurgeRemovesStaleOnly ==
    temp.last.done =>
        /\ \A e \in temp.last.before :
              (temp.last.calledAt - e.mtime > 300 * 1000) => e \notin temp.last.left
        /\ \A e \in temp.last.before :
              (temp.last.endedAt - e.mtime <= 300 * 1000) => e \in temp.last.left
        /\ temp.last.left \subseteq temp.last.before
        /\ temp.entries \subseteq temp.last.left
        /\ StoredOutside

\* A run has completed while another was under way, has removed an entry and
\* has left one whose age is exactly the threshold.
PurgedOneLeftOne ==
    /\ temp.last.done
    /\ temp.last.alongside > 0
    /\ temp.last.before \ temp.last.left # {}
    /\ \E e \in temp.last.left : temp.last.endedAt - e.mtime = 300 * 1000

====
